---- MODULE Spec2Model ----
(***************************************************************************)
(* A model of the MiniJava front end: the symbol table with its scope      *)
(* stack and attribute pool (symbol_table.c), and the semantic analyzer    *)
(* that walks the syntax tree (seman.c); the comment scanner of the lexer  *)
(* (lexer.l) and the string interner (string_hash_table.c).                *)
(*                                                                         *)
(* The C globals are gathered in one record m ("the machine"), and every   *)
(* C routine is an operator from a machine to the machine it leaves        *)
(* behind.  The variables of the module hold the fields of that record.    *)
(***************************************************************************)
EXTENDS Integers, Sequences, FiniteSets, TLC

VARIABLES
    stack,      \* StackEntry stack[]: the frames 1..stack_top
    st,         \* int st[]: head cell of each entry's attribute list
    attrarray,  \* attr_type attrarray[]: the cells 1..attr_top
    st_top,     \* index of the last symbol-table entry
    nesting,    \* current nesting level
    lowmem,     \* the memory below stack[0]
    strg_tbl,   \* the string table, one lexeme per element
    out,        \* the diagnostics printed (by the last call, or by the analysis)
    status,     \* "run", or "exit" once the process has ended
    exitcode,   \* the exit status of an ended process
    ret,        \* the value the last routine returned
    phase,      \* where the driver is
    op,         \* history: the last routine the driver called
    arg,        \* history: its argument
    opened,     \* history: stack and nesting as they were at each open block
    heap,       \* the tree nodes allocated so far; heap[NullExp] is the shared dummy
    found0,     \* what varop's local `found` holds before anything is assigned to it
    todo,       \* the calls the running handlers have still to make, the next one first
    SyntaxTree, \* the root the parser left behind
    source,     \* history: the program that was parsed
    runs,       \* history: the machine at the start of each MkST(SyntaxTree)
    yyin,       \* the characters of the input that the scanner has not read yet
    yyline,     \* int yyline: the line counter of the scanner
    yycolumn,   \* int yycolumn: its column counter
    hash_tbl,   \* struct hash_ele *hash_tbl[]: the chain of each bucket, head first
    chars,      \* char strg_tbl[]: the bytes 0..last-1 of the string table
    yylval      \* int yylval: the index install_id hands to the parser

(***************************************************************************)
(* Program constants (include/symbol_table.h).                             *)
(***************************************************************************)
STACK_SIZE == 100
ST_SIZE == 500
ATTR_SIZE == 2000

STACK_OVERFLOW == 100
REDECLARATION == 101
ST_OVERFLOW == 102
UNDECLARATION == 103
ATTR_OVERFLOW == 104

CONTINUE == 0
ABORT == 1

NAME_ATTR == 1
NEST_ATTR == 2
PREDE_ATTR == 4
KIND_ATTR == 5
TYPE_ATTR == 6
DIMEN_ATTR == 9

VAR == 2
FUNC == 4
REF_ARG == 5
VALUE_ARG == 6
PROCE == 10
CLASS == 11
ARR == 12

INDX_MIS == 114
FIELD_MIS == 115
TYPE_MIS == 121

(***************************************************************************)
(* Node kinds and operators of the syntax tree (tree.h).                   *)
(***************************************************************************)
ProgramOp == 100
BodyOp == 101
DeclOp == 102
CommaOp == 103
TypeIdOp == 105
HeadOp == 113
RArgTypeOp == 114
VArgTypeOp == 115
StmtOp == 116
SpecOp == 119
RoutineCallOp == 120
AssignOp == 121
ReturnOp == 122
VarOp == 137
SelectOp == 138
IndexOp == 139
FieldOp == 140
ClassOp == 143
MethodOp == 144
ClassDefOp == 145

IDNode == 200
NUMNode == 201
DUMMYNode == 204
EXPRNode == 205
INTEGERTNode == 206
STNode == 209

(***************************************************************************)
(* Bounds of the model.                                                    *)
(***************************************************************************)
\* the driver of the symbol-table interface makes no call that would leave
\* more frames than this on the stack
MaxFrames == 3
\* ... or more symbol-table entries than this
MaxSyms == 2

\* the identifiers the driver passes: the string-table indices of two lexemes
NameIds == {0, 1}

(***************************************************************************)
(* The scope stack.  stack[1..stack_top] are the live frames; the C array  *)
(* also has the element stack[0], which no Push ever writes and which      *)
(* therefore keeps the zeroes of a C global.  What lies below stack[0] is  *)
(* not part of the array: lowmem is that memory, read as StackEntry        *)
(* records, nearest first.                                                 *)
(***************************************************************************)
StackEntry(marker, name, st_ptr, dummy, used) ==
    [marker |-> marker, name |-> name, st_ptr |-> st_ptr, dummy |-> dummy, used |-> used]

ZeroEntry == StackEntry(FALSE, 0, 0, FALSE, FALSE)

\* a word below the array whose marker byte is not zero: every scan stops there
StopEntry == StackEntry(TRUE, 0, 0, FALSE, FALSE)

\* a word below the array that happens to look like a live binding of name n
GarbageEntry(n) == StackEntry(FALSE, n, -1, FALSE, FALSE)

LowMemChoices == {<<StopEntry>>, <<GarbageEntry(1), StopEntry>>}

\* stack[i] as the C code reads it, for i <= stack_top
StackAt(m, i) ==
    IF i >= 1 THEN m.stack[i]
    ELSE IF i = 0 THEN ZeroEntry
    ELSE IF -i <= Len(m.lowmem) THEN m.lowmem[-i]
    ELSE StopEntry

stack_top(m) == Len(m.stack)

attr_top(m) == Len(m.attrarray)

\* st[i]: slots the program never wrote hold the zero of a C global
StAt(m, i) == IF i \in DOMAIN m.st THEN m.st[i] ELSE 0

Running(m) == m.status = "run"

(***************************************************************************)
(* error_msg: prints one diagnostic; ABORT ends the process with exit(0).  *)
(***************************************************************************)
error_msg(m, type, action, id, seq) ==
    LET printed == [m EXCEPT !.out = Append(@, <<type, id>>)]
    IN  IF action = ABORT
        THEN [printed EXCEPT !.status = "exit", !.exitcode = 0]
        ELSE printed

(***************************************************************************)
(* The attribute pool.  attrarray[c] is cell c; cell index 0 is "no cell". *)
(***************************************************************************)
RECURSIVE IsAttrFrom(_, _, _)
IsAttrFrom(m, i, attr_num) ==
    IF i = 0 THEN 0
    ELSE IF m.attrarray[i].attr_num = attr_num THEN i
    ELSE IF m.attrarray[i].attr_num > attr_num THEN 0
    ELSE IsAttrFrom(m, m.attrarray[i].next_attr, attr_num)

IsAttr(m, st_ptr, attr_num) == IsAttrFrom(m, StAt(m, st_ptr), attr_num)

\* the value GetAttr returns (0 when the attribute is missing)
GetAttr(m, st_ptr, attr_num) ==
    LET i == IsAttr(m, st_ptr, attr_num)
    IN  IF i = 0 THEN 0 ELSE m.attrarray[i].attr_val

\* the last cell of the list from `next` whose kind is below attr_num (0: none)
RECURSIVE InsertAfter(_, _, _, _)
InsertAfter(m, prev, next, attr_num) ==
    IF next # 0 /\ m.attrarray[next].attr_num < attr_num
    THEN InsertAfter(m, next, m.attrarray[next].next_attr, attr_num)
    ELSE prev

\* a SetAttr that puts every new attribute at the head of the list
SetAttrAtHead(m, st_ptr, attr_num, attr_val) ==
    IF ~Running(m) THEN m
    ELSE
    LET i == IsAttr(m, st_ptr, attr_num)
        cell == [attr_num |-> attr_num, attr_val |-> attr_val, next_attr |-> StAt(m, st_ptr)]
    IN  IF i # 0
        THEN [m EXCEPT !.attrarray[i].attr_val = attr_val]
        ELSE [m EXCEPT !.attrarray = Append(@, cell),
                       !.st = [j \in (DOMAIN m.st) \cup {st_ptr} |->
                                  IF j = st_ptr THEN attr_top(m) + 1 ELSE m.st[j]]]

SetAttr(m, st_ptr, attr_num, attr_val) ==
    IF ~Running(m) THEN m
    ELSE
    LET i == IsAttr(m, st_ptr, attr_num)
    IN  IF i # 0
        THEN [m EXCEPT !.attrarray[i].attr_val = attr_val]
        ELSE
        LET prev == InsertAfter(m, 0, StAt(m, st_ptr), attr_num)
            next == IF prev = 0 THEN StAt(m, st_ptr) ELSE m.attrarray[prev].next_attr
            m1   == IF attr_top(m) >= ATTR_SIZE - 1
                    THEN error_msg(m, ATTR_OVERFLOW, ABORT, 0, 0)
                    ELSE m
            c    == attr_top(m) + 1
            cell == [attr_num |-> attr_num, attr_val |-> attr_val, next_attr |-> next]
        IN  IF ~Running(m1) THEN m1
            ELSE IF prev = 0
            THEN [m1 EXCEPT !.attrarray = Append(@, cell),
                            !.st = [j \in (DOMAIN m.st) \cup {st_ptr} |->
                                       IF j = st_ptr THEN c ELSE m.st[j]]]
            ELSE [m1 EXCEPT !.attrarray = Append([@ EXCEPT ![prev].next_attr = c], cell)]

(***************************************************************************)
(* Push: one more frame; the used flag always starts false.                *)
(***************************************************************************)
Push(m, marker, name, st_ptr, dummy) ==
    IF ~Running(m) THEN m
    ELSE
    LET m1 == IF stack_top(m) >= STACK_SIZE - 1
              THEN error_msg(m, STACK_OVERFLOW, ABORT, 0, 0)
              ELSE m
    IN  IF ~Running(m1) THEN m1
        ELSE [m1 EXCEPT !.stack = Append(@, StackEntry(marker, name, st_ptr, dummy, FALSE))]

(***************************************************************************)
(* LookUpHere: scans down from the top until a frame whose marker is set.  *)
(* The loop has no lower bound: with no marker on the stack it reads       *)
(* stack[0] and then the memory below the array.                           *)
(***************************************************************************)
RECURSIVE LookUpHereFrom(_, _, _)
LookUpHereFrom(m, i, id) ==
    IF StackAt(m, i).marker THEN 0
    ELSE IF StackAt(m, i).name = id /\ ~StackAt(m, i).dummy THEN StackAt(m, i).st_ptr
    ELSE LookUpHereFrom(m, i - 1, id)

\* a LookUpHere that looks at the top frame only
LookUpHereTopOnly(m, id) ==
    IF stack_top(m) >= 1 /\ ~m.stack[stack_top(m)].marker
       /\ m.stack[stack_top(m)].name = id /\ ~m.stack[stack_top(m)].dummy
    THEN m.stack[stack_top(m)].st_ptr
    ELSE 0

LookUpHere(m, id) == LookUpHereFrom(m, stack_top(m), id)

\* the lowest index LookUpHere(id) reads
RECURSIVE LookUpHereLow(_, _, _)
LookUpHereLow(m, i, id) ==
    IF StackAt(m, i).marker THEN i
    ELSE IF StackAt(m, i).name = id /\ ~StackAt(m, i).dummy THEN i
    ELSE LookUpHereLow(m, i - 1, id)

(***************************************************************************)
(* InsertEntry                                                             *)
(***************************************************************************)
InsertEntry(m, id) ==
    IF ~Running(m) THEN m
    ELSE IF LookUpHere(m, id) # 0
    THEN [error_msg(m, REDECLARATION, CONTINUE, id, 0) EXCEPT !.ret = 0]
    ELSE
    LET m1 == IF m.st_top >= ST_SIZE - 1
              THEN error_msg(m, ST_OVERFLOW, ABORT, 0, 0)
              ELSE m
        top == m.st_top + 1
        m2 == [m1 EXCEPT !.st_top = top,
                         !.st = [j \in (DOMAIN m.st) \cup {top} |->
                                    IF j = top THEN 0 ELSE m.st[j]]]
        m3 == SetAttr(m2, top, NAME_ATTR, id)
        m4 == SetAttr(m3, top, NEST_ATTR, m.nesting)
        m5 == Push(m4, FALSE, id, top, FALSE)
    IN  IF ~Running(m1) THEN m1
        ELSE IF ~Running(m5) THEN m5
        ELSE [m5 EXCEPT !.ret = top]

(***************************************************************************)
(* LookUp: the first frame from the top that is no marker and carries the  *)
(* name; the dummy flag of the frame is not looked at.                     *)
(***************************************************************************)
\* a LookUp scan that runs bottom-up and so finds the outermost frame
LookUpOutermost(m, i, id) ==
    LET hits == {j \in 1..i : ~m.stack[j].marker /\ m.stack[j].name = id}
    IN  IF hits = {} THEN 0 ELSE CHOOSE j \in hits : \A k \in hits : j <= k

\* a LookUp scan that passes over the dummy frames
RECURSIVE LookUpSkipsDummy(_, _, _)
LookUpSkipsDummy(m, i, id) ==
    IF i <= 0 THEN 0
    ELSE IF ~m.stack[i].marker /\ ~m.stack[i].dummy /\ m.stack[i].name = id THEN i
    ELSE LookUpSkipsDummy(m, i - 1, id)

RECURSIVE LookUpFrom(_, _, _)
LookUpFrom(m, i, id) ==
    IF i <= 0 THEN 0
    ELSE IF ~m.stack[i].marker /\ m.stack[i].name = id THEN i
    ELSE LookUpFrom(m, i - 1, id)

LookUp(m, id) ==
    IF ~Running(m) THEN m
    ELSE
    LET i == LookUpFrom(m, stack_top(m), id)
    IN  IF i # 0
        THEN [m EXCEPT !.stack[i].used = TRUE, !.ret = m.stack[i].st_ptr]
        ELSE LET m1 == error_msg(m, UNDECLARATION, CONTINUE, id, 0)
                 m2 == Push(m1, FALSE, id, 0, TRUE)
             IN  IF ~Running(m2) THEN m2 ELSE [m2 EXCEPT !.ret = 0]

(***************************************************************************)
(* OpenBlock, CloseBlock                                                   *)
(***************************************************************************)
\* an OpenBlock that forgets to count the nesting level
OpenBlockNoNesting(m) ==
    IF ~Running(m) THEN m
    ELSE Push(m, TRUE, 0, 0, FALSE)

OpenBlock(m) ==
    IF ~Running(m) THEN m
    ELSE Push([m EXCEPT !.nesting = @ + 1], TRUE, 0, 0, FALSE)

\* the index at which CloseBlock's scan for a marker stops
RECURSIVE CloseBlockScan(_, _)
CloseBlockScan(m, i) ==
    IF StackAt(m, i).marker THEN i ELSE CloseBlockScan(m, i - 1)

\* some frame of the stack is a block marker
HasMarker(m) == \E i \in 1..stack_top(m) : m.stack[i].marker

\* a CloseBlock that leaves the block marker on the stack
CloseBlockKeepsMarker(m) ==
    IF ~Running(m) THEN m
    ELSE [m EXCEPT !.nesting = @ - 1,
                   !.stack = SubSeq(@, 1, CloseBlockScan(m, stack_top(m)))]

\* Every caller (classdefop, methodop) closes a block it has opened, so a marker
\* is on the stack: i >= 1 and the new stack_top i - 1 is not negative.
CloseBlock(m) ==
    IF ~Running(m) THEN m
    ELSE
    LET i == CloseBlockScan(m, stack_top(m))
    IN  [m EXCEPT !.nesting = @ - 1,
                  !.stack = SubSeq(@, 1, i - 1)]

(***************************************************************************)
(* loc_str: the index of a lexeme in the string table, -1 when absent.     *)
(* Lexemes are numbered in the order of their installation.                *)
(***************************************************************************)
RECURSIVE loc_strFrom(_, _, _)
loc_strFrom(tbl, i, string) ==
    IF i >= Len(tbl) THEN -1
    ELSE IF tbl[i + 1] = string THEN i
    ELSE loc_strFrom(tbl, i + 1, string)

loc_str(m, string) == loc_strFrom(m.strg_tbl, 0, string)

(***************************************************************************)
(* STInit: the predefined names, each only if the string table has it.     *)
(***************************************************************************)
STInitSystem(m) ==
    LET nStrInd == loc_str(m, "system")
        m1 == InsertEntry(m, nStrInd)
        m2 == SetAttr(m1, m1.ret, PREDE_ATTR, 1)
    IN  IF nStrInd # -1 THEN SetAttr(m2, m1.ret, KIND_ATTR, CLASS) ELSE m

STInitProc(m, string) ==
    LET nStrInd == loc_str(m, string)
        m1 == InsertEntry(m, nStrInd)
        m2 == SetAttr(m1, m1.ret, NEST_ATTR, m1.nesting + 1)
        m3 == SetAttr(m2, m1.ret, PREDE_ATTR, 1)
    IN  IF nStrInd # -1 THEN SetAttr(m3, m1.ret, KIND_ATTR, PROCE) ELSE m

STInit(m) == STInitProc(STInitProc(STInitSystem(m), "readln"), "println")

(***************************************************************************)
(* The syntax tree (tree.c).  A tree pointer is an index into heap; the    *)
(* global node `dummy` is heap[NullExp].  Nodes the analyzer frees are     *)
(* never read again (each is unlinked right after the free), so the heap   *)
(* only grows.                                                             *)
(***************************************************************************)
NullExp == 1

ILTree(Kind, Op, N, Left, Right) ==
    [NodeKind |-> Kind, NodeOpType |-> Op, IntVal |-> N, LeftC |-> Left, RightC |-> Right]

dummyNode == ILTree(DUMMYNode, 0, 0, 0, 0)

NodeKind(m, T) == m.heap[T].NodeKind

IsNull(m, T) == NodeKind(m, T) = DUMMYNode

NodeOp(m, T) == IF NodeKind(m, T) # EXPRNode THEN 0 ELSE m.heap[T].NodeOpType

IntVal(m, T) == IF NodeKind(m, T) = EXPRNode THEN -1 ELSE m.heap[T].IntVal

LeftChild(m, T) == IF NodeKind(m, T) # EXPRNode THEN NullExp ELSE m.heap[T].LeftC

RightChild(m, T) == IF NodeKind(m, T) # EXPRNode THEN NullExp ELSE m.heap[T].RightC

\* the new node's address is left in ret
MakeLeaf(m, Kind, N) ==
    IF ~Running(m) THEN m
    ELSE [m EXCEPT !.heap = Append(@, ILTree(Kind, 0, N, NullExp, NullExp)),
                   !.ret = Len(m.heap) + 1]

MakeTree(m, Op, Left, Right) ==
    IF ~Running(m) THEN m
    ELSE [m EXCEPT !.heap = Append(@, ILTree(EXPRNode, Op, 0, Left, Right)),
                   !.ret = Len(m.heap) + 1]

SetLeftChild(m, T, NewC) ==
    IF ~Running(m) \/ NodeKind(m, T) # EXPRNode THEN m
    ELSE [m EXCEPT !.heap[T].LeftC = NewC]

SetRightChild(m, T, NewC) ==
    IF ~Running(m) \/ NodeKind(m, T) # EXPRNode THEN m
    ELSE [m EXCEPT !.heap[T].RightC = NewC]

\* the last node of the left spine that starts at p
RECURSIVE LeftMost(_, _)
LeftMost(m, p) == IF IsNull(m, LeftChild(m, p)) THEN p ELSE LeftMost(m, LeftChild(m, p))

RECURSIVE RightMost(_, _)
RightMost(m, p) == IF IsNull(m, RightChild(m, p)) THEN p ELSE RightMost(m, RightChild(m, p))

\* int LeftDepth(tree): the number of nodes passed before LeftChild() gives the dummy
RECURSIVE LeftDepth(_, _)
LeftDepth(m, treenode) ==
    IF IsNull(m, treenode) THEN 0 ELSE 1 + LeftDepth(m, LeftChild(m, treenode))

\* p->LeftC = T1 is a plain store: it also lands in a leaf that ends the spine
MkLeftC(m, T1, T2) ==
    IF IsNull(m, T2) THEN [m EXCEPT !.ret = T1]
    ELSE [m EXCEPT !.heap[LeftMost(m, T2)].LeftC = T1, !.ret = T2]

MkRightC(m, T1, T2) ==
    IF IsNull(m, T2) THEN [m EXCEPT !.ret = T1]
    ELSE [m EXCEPT !.heap[RightMost(m, T2)].RightC = T1, !.ret = T2]

(***************************************************************************)
(* The semantic analyzer (seman.c).                                        *)
(*                                                                         *)
(* The calls that the running handlers have still to make are kept in      *)
(* m.todo, the next one first: a handler runs up to its first call of MkST *)
(* and leaves that call, and what it does after it, as tasks.  Resume runs *)
(* the next task.                                                          *)
(***************************************************************************)
\* the routine F goes on from the machine a, unless the process has ended there
Then(a, F(_)) == IF Running(a) THEN F(a) ELSE a

\* F with the value x
With(x, F(_)) == F(x)

Task(k, node) == [k |-> k, node |-> node]

Defer(m, tasks) == IF ~Running(m) THEN m ELSE [m EXCEPT !.todo = tasks \o @]

RECURSIVE MkST(_, _)
RECURSIVE Resume(_)

\* the tasks are run until only `depth` of them are left
RECURSIVE Finish(_, _)
Finish(m, depth) ==
    IF ~Running(m) \/ Len(m.todo) <= depth THEN m ELSE Finish(Resume(m), depth)

\* MkST(treenode), from the call to the return
MkSTAll(m, treenode) == Finish(MkST(m, treenode), Len(m.todo))

(***************************************************************************)
(* typeidop: every left child along the right spine of the type that is    *)
(* there and is no INTEGERTNode is looked up by its IntVal and replaced,   *)
(* whatever kind of leaf it is and whatever LookUp returned.               *)
(***************************************************************************)
RECURSIVE typeidopLoop(_, _, _)
typeidopLoop(m, lchild, rchild) ==
    IF ~Running(m) \/ IsNull(m, rchild) THEN m
    ELSE Then(IF ~IsNull(m, lchild) /\ NodeKind(m, lchild) # INTEGERTNode
              THEN Then(LookUp(m, IntVal(m, lchild)), LAMBDA looked :
                   Then(MakeLeaf(looked, STNode, looked.ret), LAMBDA leaf :
                   SetLeftChild(leaf, rchild, leaf.ret)))
              ELSE m, LAMBDA m1 :
         typeidopLoop(m1, LeftChild(m1, RightChild(m1, rchild)), RightChild(m1, rchild)))

typeidop(m, node) == typeidopLoop(m, LeftChild(m, node), node)

(***************************************************************************)
(* specop: the parameters, along the right spine from the left child.  The *)
(* result of InsertEntry is used unchecked; the right child of the SpecOp  *)
(* (the return type of the method) is not visited.                         *)
(***************************************************************************)
RECURSIVE specopLoop(_, _)
specopLoop(m, child) ==
    IF ~Running(m) \/ IsNull(m, child) THEN m
    ELSE
    LET child1 == LeftChild(m, child)
    IN  Then(InsertEntry(m, IntVal(m, LeftChild(m, child1))), LAMBDA m1 :
        Then(SetAttr(m1, m1.ret, TYPE_ATTR, RightChild(m1, child1)), LAMBDA m2 :
        Then(IF NodeOp(m2, child) = VArgTypeOp
             THEN SetAttr(m2, m1.ret, KIND_ATTR, VALUE_ARG)
             ELSE IF NodeOp(m2, child) = RArgTypeOp
             THEN SetAttr(m2, m1.ret, KIND_ATTR, REF_ARG)
             ELSE m2, LAMBDA m3 :
        Then(MakeLeaf(m3, STNode, m1.ret), LAMBDA leaf :
        Then(SetLeftChild(leaf, child1, leaf.ret), LAMBDA m4 :
        specopLoop(m4, RightChild(m4, child)))))))

specop(m, node) == specopLoop(m, LeftChild(m, node))

RECURSIVE varop(_, _, _)

(***************************************************************************)
(* declop: the declarators of one declaration, the last one first; a       *)
(* declarator whose name cannot be inserted ends the whole declaration.    *)
(***************************************************************************)
\* the number of nodes along the right spine from temp
RECURSIVE RightDepth(_, _)
RightDepth(m, temp) == IF IsNull(m, temp) THEN 0 ELSE 1 + RightDepth(m, RightChild(m, temp))

\* the kind of the declared name: a variable, or an array with its dimension
declopKind(m, nSymInd, dims) ==
    IF IsNull(m, dims) THEN SetAttr(m, nSymInd, KIND_ATTR, VAR)
    ELSE IF NodeOp(m, dims) = IndexOp
    THEN Then(SetAttr(m, nSymInd, DIMEN_ATTR, RightDepth(m, dims)), LAMBDA dimen :
         SetAttr(dimen, nSymInd, KIND_ATTR, ARR))
    ELSE m

RECURSIVE declopLoop(_, _)
declopLoop(m, child) ==
    IF ~Running(m) \/ IsNull(m, child) THEN m
    ELSE
    LET child1 == RightChild(m, child)
    IN  Then(InsertEntry(m, IntVal(m, LeftChild(m, child1))), LAMBDA m1 :
        IF m1.ret = 0 THEN m1
        ELSE
        LET typenode == LeftChild(m1, RightChild(m1, child1))
        IN  Then(SetAttr(m1, m1.ret, TYPE_ATTR, typenode), LAMBDA m2 :
            Then(MakeLeaf(m2, STNode, m1.ret), LAMBDA leaf :
            Then(SetLeftChild(leaf, child1, leaf.ret), LAMBDA m3 :
            Then(typeidop(m3, typenode), LAMBDA m4 :
            Then(declopKind(m4, m1.ret, RightChild(m4, typenode)), LAMBDA m5 :
            LET child2 == RightChild(m5, RightChild(m5, child1))
            IN  IF NodeOp(m5, child2) = VarOp
                THEN Then(varop(m5, child2, 1), LAMBDA m6 :
                     declopLoop(m6, LeftChild(m6, child)))
                ELSE Defer(m5, <<Task("MkST", child2), Task("declop", child)>>)))))))

declop(m, node) == declopLoop(m, node)

(***************************************************************************)
(* classdefop: the result of InsertEntry is used unchecked, so a class     *)
(* whose name is refused is analyzed all the same, as symbol 0.            *)
(***************************************************************************)
\* a classdefop that leaves its block open when the class name was refused
classdefopLeavesOpen(m, node) ==
    IF ~Running(m) THEN m
    ELSE
    Then(InsertEntry(m, IntVal(m, RightChild(m, node))), LAMBDA m1 :
    Then(SetAttr(m1, m1.ret, KIND_ATTR, CLASS), LAMBDA m2 :
    Then(OpenBlock(m2), LAMBDA m3 :
    Then(MakeLeaf(m3, STNode, m1.ret), LAMBDA leaf :
    Then(SetRightChild(leaf, node, leaf.ret), LAMBDA m4 :
    IF m1.ret = 0
    THEN Defer(m4, <<Task("MkST", LeftChild(m4, node))>>)
    ELSE Defer(m4, <<Task("MkST", LeftChild(m4, node)), Task("CloseBlock", node)>>))))))

classdefop(m, node) ==
    IF ~Running(m) THEN m
    ELSE
    Then(InsertEntry(m, IntVal(m, RightChild(m, node))), LAMBDA m1 :
    Then(SetAttr(m1, m1.ret, KIND_ATTR, CLASS), LAMBDA m2 :
    Then(OpenBlock(m2), LAMBDA m3 :
    Then(MakeLeaf(m3, STNode, m1.ret), LAMBDA leaf :
    Then(SetRightChild(leaf, node, leaf.ret), LAMBDA m4 :
    Defer(m4, <<Task("MkST", LeftChild(m4, node)), Task("CloseBlock", node)>>))))))

(***************************************************************************)
(* methodop: a method called main is refused when any entry of the symbol  *)
(* table, of whatever kind and scope, already carries that name.           *)
(***************************************************************************)
\* the scan of methodop for an entry that carries the name
NameInTable(m, nStrInd) ==
    \E i \in 0..m.st_top : IsAttr(m, i, NAME_ATTR) # 0 /\ GetAttr(m, i, NAME_ATTR) = nStrInd

\* the kind of the method, and the type it returns if it returns a value
methodopKind(m, nSymInd, child1) ==
    IF ~IsNull(m, child1)
    THEN Then(SetAttr(m, nSymInd, KIND_ATTR, FUNC), LAMBDA func :
         SetAttr(func, nSymInd, TYPE_ATTR, child1))
    ELSE SetAttr(m, nSymInd, KIND_ATTR, PROCE)

methodop(m, node) ==
    IF ~Running(m) THEN m
    ELSE
    LET child   == LeftChild(m, node)
        nStrInd == IntVal(m, LeftChild(m, child))
    IN  IF nStrInd = loc_str(m, "main") /\ NameInTable(m, nStrInd)
        THEN error_msg(m, REDECLARATION, CONTINUE, nStrInd, 0)
        ELSE
        Then(InsertEntry(m, nStrInd), LAMBDA m1 :
        Then(OpenBlock(m1), LAMBDA m2 :
        Then(methodopKind(m2, m1.ret, RightChild(m2, RightChild(m2, child))), LAMBDA m3 :
        Then(MakeLeaf(m3, STNode, m1.ret), LAMBDA leaf :
        Then(SetLeftChild(leaf, child, leaf.ret), LAMBDA m4 :
        Defer(m4, <<Task("MkST right", child), Task("MkST right", node),
                    Task("CloseBlock", node)>>))))))

(***************************************************************************)
(* varop.  The locals of the C function that live across the do-while loop *)
(* are kept in a record v: the machine m, st_ind0, nest0, rchild, found,   *)
(* and done, which is set where the C code returns.  indecl is the         *)
(* parameter `declop` of the C function.                                   *)
(***************************************************************************)
Return(v, m) == [v EXCEPT !.m = m, !.done = TRUE]

\* case VAR
varopVAR(v) ==
    LET m        == v.m
        typenode == GetAttr(m, v.st_ind0, TYPE_ATTR)
        temp     == LeftChild(m, typenode)
    IN  IF NodeKind(m, temp) = INTEGERTNode
        THEN IF IsNull(m, v.rchild)
             THEN Return(v, m)
             ELSE Return(v, error_msg(m, FIELD_MIS, CONTINUE,
                                      IntVal(m, LeftChild(m, LeftChild(m, v.rchild))), 0))
        ELSE IF IntVal(m, temp) # 0
        THEN [v EXCEPT !.st_ind0 = IntVal(m, temp),
                       !.nest0 = GetAttr(m, IntVal(m, temp), NEST_ATTR)]
        ELSE [v EXCEPT !.st_ind0 = 0]

\* the line "method <name> members cannot be accessed" in the output
MethodMembers == 0

\* varopFUNC with the line printed and no exit(1)
varopFUNCNoExit(v) ==
    IF IsNull(v.m, v.rchild)
    THEN Return(v, v.m)
    ELSE Return(v, [v.m EXCEPT !.out = Append(@, <<MethodMembers, IntVal(v.m, v.lchild)>>)])

\* case PROCE, FUNC: a member access on a method prints the line, with the name
\* in the IDNode that the VarOp had, and ends the process with exit(1)
varopFUNC(v) ==
    IF IsNull(v.m, v.rchild)
    THEN Return(v, v.m)
    ELSE Return(v, [v.m EXCEPT !.out = Append(@, <<MethodMembers, IntVal(v.m, v.lchild)>>),
                               !.status = "exit", !.exitcode = 1])

\* a scan for the field that takes an entry of the name at any depth of the extent
RECURSIVE FieldScanAnyNest(_, _, _, _)
FieldScanAnyNest(m, i, name, nest0) ==
    IF GetAttr(m, i, NAME_ATTR) = name /\ GetAttr(m, i, NEST_ATTR) > nest0 THEN i
    ELSE IF i + 1 <= m.st_top /\ GetAttr(m, i + 1, NEST_ATTR) > nest0
    THEN FieldScanAnyNest(m, i + 1, name, nest0)
    ELSE 0

\* case CLASS, FieldOp: the entry after st_ind0 that carries the field name one
\* level deeper, 0 when the scan ends without one
RECURSIVE FieldScan(_, _, _, _)
FieldScan(m, i, name, nest0) ==
    IF GetAttr(m, i, NAME_ATTR) = name /\ GetAttr(m, i, NEST_ATTR) = nest0 + 1 THEN i
    ELSE IF i + 1 <= m.st_top /\ GetAttr(m, i + 1, NEST_ATTR) > nest0
    THEN FieldScan(m, i + 1, name, nest0)
    ELSE 0

\* case CLASS, IndexOp in a declaration: the walk over the rest of the chain,
\* with v.rchild already advanced once
RECURSIVE ClassIndexWalk(_)
ClassIndexWalk(v) ==
    LET m         == v.m
        rchild    == RightChild(m, v.rchild)
        fld_indop == LeftChild(m, rchild)
    IN  IF IsNull(m, v.rchild) THEN v
        ELSE IF NodeOp(m, fld_indop) # IndexOp
        THEN Return(v, error_msg(m, FIELD_MIS, CONTINUE, IntVal(m, LeftChild(m, fld_indop)), 0))
        ELSE ClassIndexWalk([v EXCEPT !.rchild = rchild])

\* case CLASS, FieldOp, with i the result of the scan
varopField(v, nest0, fld_indop, i) ==
    IF i # 0
    THEN Then(MakeLeaf(v.m, STNode, i), LAMBDA leaf :
         [v EXCEPT !.m = SetLeftChild(leaf, fld_indop, leaf.ret),
                   !.found = TRUE,
                   !.st_ind0 = i,
                   !.nest0 = nest0 + 1,
                   !.rchild = RightChild(v.m, v.rchild)])
    ELSE IF ~v.found
    THEN Return(v, error_msg(v.m, UNDECLARATION, CONTINUE,
                             IntVal(v.m, LeftChild(v.m, fld_indop)), 0))
    ELSE [v EXCEPT !.nest0 = nest0]

varopCLASS(v, indecl) ==
    LET m         == v.m
        nest0     == GetAttr(m, v.st_ind0, NEST_ATTR)
        fld_indop == LeftChild(m, v.rchild)
    IN  IF NodeOp(m, fld_indop) = FieldOp
        THEN varopField(v, nest0, fld_indop,
                        FieldScan(m, v.st_ind0 + 1, IntVal(m, LeftChild(m, fld_indop)), nest0))
        ELSE IF NodeOp(m, fld_indop) = IndexOp
        THEN IF indecl # 1
             THEN Return(v, error_msg(m, TYPE_MIS, CONTINUE, GetAttr(m, v.st_ind0, NAME_ATTR), 0))
             ELSE ClassIndexWalk([v EXCEPT !.nest0 = nest0, !.rchild = RightChild(m, v.rchild)])
        ELSE [v EXCEPT !.nest0 = nest0]

\* case ARR: the loop over the subscripts; a is [m, rchild, d, err]
RECURSIVE ArrIndexLoop(_, _, _)
ArrIndexLoop(a, dimension, st_ind0) ==
    LET m         == a.m
        fld_indop == LeftChild(m, a.rchild)
    IN  IF IsNull(m, a.rchild) \/ NodeOp(m, fld_indop) = FieldOp THEN a
        ELSE IF a.d + 1 > dimension
        THEN [a EXCEPT !.d = a.d + 1, !.err = TRUE,
                       !.m = error_msg(m, INDX_MIS, CONTINUE, GetAttr(m, st_ind0, NAME_ATTR), 0)]
        ELSE With(IF NodeKind(m, LeftChild(m, fld_indop)) = EXPRNode
                  THEN MkSTAll(m, LeftChild(m, fld_indop))
                  ELSE m, LAMBDA m1 :
             IF ~Running(m1) THEN [a EXCEPT !.m = m1, !.err = TRUE]
             ELSE ArrIndexLoop([a EXCEPT !.m = m1, !.d = a.d + 1,
                                         !.rchild = RightChild(m1, a.rchild)],
                               dimension, st_ind0))

\* case ARR, after the loop over the subscripts
varopARRTail(v, a, name, dimension, isInt, tempind) ==
    LET m        == a.m
        selectop == a.rchild
        isLength == IntVal(m, LeftChild(m, LeftChild(m, selectop))) = loc_str(m, "length")
    IN  IF a.err THEN Return(v, m)
        ELSE IF IsNull(m, a.rchild) /\ a.d < dimension
        THEN Return(v, error_msg(m, INDX_MIS, CONTINUE, name, 0))
        ELSE IF IsNull(m, a.rchild) THEN [v EXCEPT !.m = m, !.rchild = a.rchild]
        ELSE IF ~isLength
        THEN IF isInt
             THEN Return(v, error_msg(m, TYPE_MIS, CONTINUE, name, 0))
             ELSE [v EXCEPT !.m = m, !.rchild = a.rchild, !.st_ind0 = tempind,
                            !.nest0 = GetAttr(m, tempind, NEST_ATTR)]
        ELSE IF ~IsNull(m, RightChild(m, selectop))
        THEN Return(v, error_msg(m, TYPE_MIS, CONTINUE, name, 0))
        ELSE [v EXCEPT !.m = m, !.rchild = RightChild(m, a.rchild)]

varopARR(v) ==
    LET m         == v.m
        name      == GetAttr(m, v.st_ind0, NAME_ATTR)
        temp      == LeftChild(m, GetAttr(m, v.st_ind0, TYPE_ATTR))
        dimension == GetAttr(m, v.st_ind0, DIMEN_ATTR)
    IN  IF IsNull(m, v.rchild)
        THEN Return(v, error_msg(m, INDX_MIS, CONTINUE, name, 0))
        ELSE IF NodeKind(m, temp) # INTEGERTNode /\ IntVal(m, temp) = 0 THEN v
        ELSE varopARRTail(v,
                          ArrIndexLoop([m |-> m, rchild |-> v.rchild, d |-> 0, err |-> FALSE],
                                       dimension, v.st_ind0),
                          name, dimension, NodeKind(m, temp) = INTEGERTNode, IntVal(m, temp))

\* one pass through the body of the do-while loop
varopBody(v, indecl) ==
    LET kind == GetAttr(v.m, v.st_ind0, KIND_ATTR)
    IN  CASE kind = VAR -> varopVAR(v)
          [] kind \in {PROCE, FUNC} -> varopFUNC(v)
          [] kind = CLASS -> varopCLASS(v, indecl)
          [] kind = ARR -> varopARR(v)
          [] OTHER -> v

\* The loop.  A pass that returns nothing and ends in a state the loop was in
\* before is followed by the same passes for ever: the process hangs.
RECURSIVE varopLoop(_, _, _)
varopLoop(v, indecl, seen) ==
    With(varopBody(v, indecl), LAMBDA v1 :
    IF v1.done \/ ~Running(v1.m) THEN v1.m
    ELSE IF IsNull(v1.m, v1.rchild) THEN v1.m
    ELSE IF v1 \in seen \cup {v} THEN [v1.m EXCEPT !.status = "hang"]
    ELSE varopLoop(v1, indecl, seen \cup {v}))

varop(m, node, indecl) ==
    IF ~Running(m) THEN m
    ELSE
    Then(LookUp(m, IntVal(m, LeftChild(m, node))), LAMBDA m1 :
    IF m1.ret = 0
    THEN error_msg(m1, UNDECLARATION, CONTINUE, IntVal(m1, LeftChild(m1, node)), 0)
    ELSE Then(MakeLeaf(m1, STNode, m1.ret), LAMBDA leaf :
         Then(SetLeftChild(leaf, node, leaf.ret), LAMBDA m2 :
         varopLoop([m |-> m2, st_ind0 |-> m1.ret, nest0 |-> -1, lchild |-> LeftChild(m, node),
                    rchild |-> RightChild(m, node), found |-> m.found0, done |-> FALSE],
                   indecl, {}))))

(***************************************************************************)
(* routinecallop, MkST                                                     *)
(***************************************************************************)
routinecallop(m, node) ==
    IF ~Running(m) THEN m
    ELSE Then(varop(m, LeftChild(m, node), 2), LAMBDA m1 :
         Defer(m1, <<Task("MkST", RightChild(m, node))>>))

MkST(m, treenode) ==
    IF ~Running(m) \/ IsNull(m, treenode) THEN m
    ELSE
    LET o == NodeOp(m, treenode)
    IN  CASE o = ClassDefOp -> classdefop(m, treenode)
          [] o = MethodOp -> methodop(m, treenode)
          [] o = DeclOp -> declop(m, treenode)
          [] o = SpecOp -> specop(m, treenode)
          [] o = TypeIdOp -> typeidop(m, treenode)
          [] o = VarOp -> varop(m, treenode, 0)
          [] o = RoutineCallOp -> routinecallop(m, treenode)
          [] OTHER -> Defer(m, <<Task("MkST", LeftChild(m, treenode)),
                                 Task("MkST right", treenode)>>)

\* the next task of the analysis
Resume(m) ==
    With([m EXCEPT !.todo = Tail(@)], LAMBDA m1 :
    CASE Head(m.todo).k = "MkST" -> MkST(m1, Head(m.todo).node)
      [] Head(m.todo).k = "MkST right" -> MkST(m1, RightChild(m1, Head(m.todo).node))
      [] Head(m.todo).k = "declop" -> declopLoop(m1, LeftChild(m1, Head(m.todo).node))
      [] Head(m.todo).k = "CloseBlock" -> CloseBlock(m1))

\* the handler that MkST(treenode) runs
HandlerOf(m, treenode) ==
    LET o == NodeOp(m, treenode)
    IN  CASE o = ClassDefOp -> "classdefop"
          [] o = MethodOp -> "methodop"
          [] o = DeclOp -> "declop"
          [] o = SpecOp -> "specop"
          [] o = TypeIdOp -> "typeidop"
          [] o = VarOp -> "varop"
          [] o = RoutineCallOp -> "routinecallop"
          [] OTHER -> "MkST"

(***************************************************************************)
(* The parser (grammar.y), for the part of the language the programs of    *)
(* the model are written in.  A program is given as a record; each         *)
(* operator below is the action of the grammar rule it is named after and  *)
(* leaves the tree it built in ret.  Identifiers reach the string table in *)
(* the order of the source text.                                           *)
(***************************************************************************)
\* IDnum: the lexer interns the lexeme and hands its index to the parser.  No
\* lexeme of the programs below is a proper prefix of one that comes before it,
\* so the comparison of the first yyleng characters in install_id compares
\* whole lexemes.
install_id(m, text) ==
    IF loc_str(m, text) # -1
    THEN [m EXCEPT !.ret = loc_str(m, text)]
    ELSE [m EXCEPT !.strg_tbl = Append(@, text), !.ret = Len(m.strg_tbl)]

IDLeaf(m, text) == Then(install_id(m, text), LAMBDA a : MakeLeaf(a, IDNode, a.ret))

RECURSIVE Expression(_, _)

\* Variable_1: a field access or a subscript
Variable_1(m, sel) ==
    IF sel.k = "field"
    THEN Then(IDLeaf(m, sel.name), LAMBDA leaf : MakeTree(leaf, FieldOp, leaf.ret, NullExp))
    ELSE Then(Expression(m, sel.e), LAMBDA index : MakeTree(index, IndexOp, index.ret, NullExp))

\* Variable_rec over chain[i..]
RECURSIVE Variable_rec(_, _, _)
Variable_rec(m, chain, i) ==
    IF i > Len(chain) THEN [m EXCEPT !.ret = NullExp]
    ELSE Then(Variable_1(m, chain[i]), LAMBDA first :
         Then(Variable_rec(first, chain, i + 1), LAMBDA rest :
         MakeTree(rest, SelectOp, first.ret, rest.ret)))

Variable(m, e) ==
    Then(install_id(m, e.base), LAMBDA a :
    Then(Variable_rec(a, e.chain, 1), LAMBDA tail :
    Then(MakeLeaf(tail, IDNode, a.ret), LAMBDA leaf :
    MakeTree(leaf, VarOp, leaf.ret, tail.ret))))

Expression(m, e) ==
    IF e.k = "num" THEN MakeLeaf(m, NUMNode, e.v) ELSE Variable(m, e)

\* Expression_rec over args[i..]
RECURSIVE Expression_rec(_, _, _)
Expression_rec(m, args, i) ==
    Then(Expression(m, args[i]), LAMBDA first :
    Then(IF i = Len(args) THEN [first EXCEPT !.ret = NullExp]
         ELSE Expression_rec(first, args, i + 1), LAMBDA rest :
    MakeTree(rest, CommaOp, first.ret, rest.ret)))

AssignmentStatement(m, s) ==
    Then(Variable(m, s.var), LAMBDA v :
    Then(Expression(v, s.e), LAMBDA rhs :
    Then(MakeTree(rhs, AssignOp, NullExp, v.ret), LAMBDA inner :
    MakeTree(inner, AssignOp, inner.ret, rhs.ret))))

MethodCallStatement(m, s) ==
    Then(Variable(m, s.var), LAMBDA v :
    Then(IF s.args = << >> THEN [v EXCEPT !.ret = NullExp]
         ELSE Expression_rec(v, s.args, 1), LAMBDA args :
    MakeTree(args, RoutineCallOp, v.ret, args.ret)))

Statement(m, s) ==
    IF s.k = "assign" THEN AssignmentStatement(m, s) ELSE MethodCallStatement(m, s)

\* Statement_rec over stmts[1..i]; { } holds the one empty statement
RECURSIVE Statement_rec(_, _, _)
Statement_rec(m, stmts, i) ==
    IF Len(stmts) = 0 THEN MakeTree(m, StmtOp, NullExp, NullExp)
    ELSE Then(IF i = 1 THEN [m EXCEPT !.ret = NullExp]
              ELSE Statement_rec(m, stmts, i - 1), LAMBDA prev :
         Then(Statement(prev, stmts[i]), LAMBDA s :
         MakeTree(s, StmtOp, prev.ret, s.ret)))

\* Bracket_rec2 with n pairs of brackets
RECURSIVE Bracket_rec2(_, _)
Bracket_rec2(m, n) ==
    IF n = 1 THEN MakeTree(m, IndexOp, NullExp, NullExp)
    ELSE Then(Bracket_rec2(m, n - 1), LAMBDA rest : MakeTree(rest, IndexOp, NullExp, rest.ret))

Type(m, t) ==
    Then(IF t.base = "int" THEN MakeLeaf(m, INTEGERTNode, 0)
         ELSE IDLeaf(m, t.base), LAMBDA front :
    Then(IF t.dims = 0 THEN [front EXCEPT !.ret = NullExp]
         ELSE Bracket_rec2(front, t.dims), LAMBDA dims :
    MakeTree(dims, TypeIdOp, front.ret, dims.ret)))

\* FieldDecl_body over vars[1..i]; every Tail shares the one tree type_record
RECURSIVE FieldDecl_body(_, _, _, _)
FieldDecl_body(m, type_record, vars, i) ==
    Then(IF i = 1 THEN [m EXCEPT !.ret = NullExp]
         ELSE FieldDecl_body(m, type_record, vars, i - 1), LAMBDA prev :
    Then(IDLeaf(prev, vars[i].name), LAMBDA id :
    Then(IF vars[i].init.k = "none" THEN [id EXCEPT !.ret = NullExp]
         ELSE Expression(id, vars[i].init), LAMBDA init :
    Then(MakeTree(init, CommaOp, type_record, init.ret), LAMBDA commat :
    Then(MakeTree(commat, CommaOp, id.ret, commat.ret), LAMBDA tail :
    MakeTree(tail, DeclOp, prev.ret, tail.ret))))))

FieldDecl(m, d) ==
    Then(Type(m, d.type), LAMBDA type : FieldDecl_body(type, type.ret, d.vars, Len(d.vars)))

\* Decls: FieldDecl_rec over decls[1..i]
RECURSIVE FieldDecl_rec(_, _, _)
FieldDecl_rec(m, decls, i) ==
    Then(IF i = 1 THEN [m EXCEPT !.ret = NullExp]
         ELSE FieldDecl_rec(m, decls, i - 1), LAMBDA prev :
    Then(FieldDecl(prev, decls[i]), LAMBDA d :
    MakeTree(d, BodyOp, prev.ret, d.ret)))

\* FormalParameterList over params[1..i], each parameter a group of its own
RECURSIVE FormalParameterList(_, _, _)
FormalParameterList(m, params, i) ==
    Then(IF i = 1 THEN [m EXCEPT !.ret = NullExp]
         ELSE FormalParameterList(m, params, i - 1), LAMBDA prev :
    Then(IDLeaf(prev, params[i].name), LAMBDA id :
    Then(MakeLeaf(id, INTEGERTNode, 0), LAMBDA int :
    Then(MakeTree(int, CommaOp, id.ret, int.ret), LAMBDA comma :
    Then(MakeTree(comma, IF params[i].val THEN VArgTypeOp ELSE RArgTypeOp,
                  comma.ret, NullExp), LAMBDA group :
    MkRightC(group, group.ret, prev.ret))))))

Block(m, decls, stmts) ==
    Then(IF decls = << >> THEN [m EXCEPT !.ret = NullExp]
         ELSE FieldDecl_rec(m, decls, Len(decls)), LAMBDA d :
    Then(Statement_rec(d, stmts, Len(stmts)), LAMBDA s :
    MakeTree(s, BodyOp, d.ret, s.ret)))

MethodDecl(m, md) ==
    Then(IF md.ret.base = "void" THEN [m EXCEPT !.ret = NullExp]
         ELSE Type(m, md.ret), LAMBDA type_method :
    Then(install_id(type_method, md.name), LAMBDA name :
    Then(IF md.params = << >> THEN [name EXCEPT !.ret = NullExp]
         ELSE FormalParameterList(name, md.params, Len(md.params)), LAMBDA params :
    Then(MakeTree(params, SpecOp, params.ret, type_method.ret), LAMBDA spec :
    Then(Block(spec, md.decls, md.stmts), LAMBDA block :
    Then(MakeLeaf(block, IDNode, name.ret), LAMBDA id :
    Then(MakeTree(id, HeadOp, id.ret, spec.ret), LAMBDA head :
    MakeTree(head, MethodOp, head.ret, block.ret))))))))

\* MethodDecl_rec over methods[1..i]
RECURSIVE MethodDecl_rec(_, _, _)
MethodDecl_rec(m, methods, i) ==
    Then(IF i = 1 THEN [m EXCEPT !.ret = NullExp]
         ELSE MethodDecl_rec(m, methods, i - 1), LAMBDA prev :
    Then(MethodDecl(prev, methods[i]), LAMBDA md :
    MakeTree(md, BodyOp, prev.ret, md.ret)))

\* a class without fields has no declarations section
ClassBody(m, c) ==
    Then(IF c.decls = << >> THEN [m EXCEPT !.ret = NullExp]
         ELSE FieldDecl_rec(m, c.decls, Len(c.decls)), LAMBDA decls :
    Then(IF c.methods = << >> THEN [decls EXCEPT !.ret = NullExp]
         ELSE MethodDecl_rec(decls, c.methods, Len(c.methods)), LAMBDA methods :
    IF c.decls = << >> THEN methods
    ELSE IF c.methods = << >> THEN [methods EXCEPT !.ret = decls.ret]
    ELSE MkLeftC(methods, decls.ret, methods.ret)))

ClassDecl(m, c) ==
    Then(install_id(m, c.name), LAMBDA name :
    Then(ClassBody(name, c), LAMBDA body :
    Then(MakeLeaf(body, IDNode, name.ret), LAMBDA id :
    MakeTree(id, ClassDefOp, body.ret, id.ret))))

\* ClassDecl_rec over classes[1..i]
RECURSIVE ClassDecl_rec(_, _, _)
ClassDecl_rec(m, classes, i) ==
    Then(IF i = 1 THEN [m EXCEPT !.ret = NullExp]
         ELSE ClassDecl_rec(m, classes, i - 1), LAMBDA prev :
    Then(ClassDecl(prev, classes[i]), LAMBDA c :
    MakeTree(c, ClassOp, prev.ret, c.ret)))

\* Program: `program <name> ; <classes>`
Program(m, prog) ==
    Then(install_id(m, prog.name), LAMBDA name :
    Then(ClassDecl_rec(name, prog.classes, Len(prog.classes)), LAMBDA classes :
    MakeTree(classes, ProgramOp, classes.ret, NullExp)))

(***************************************************************************)
(* The machine held by the variables.                                      *)
(***************************************************************************)
Cur ==
    [stack |-> stack, st |-> st, attrarray |-> attrarray, st_top |-> st_top,
     nesting |-> nesting, lowmem |-> lowmem, strg_tbl |-> strg_tbl, out |-> out,
     status |-> status, exitcode |-> exitcode, ret |-> ret,
     heap |-> heap, found0 |-> found0, todo |-> todo]

Set(m) ==
    /\ stack' = m.stack
    /\ st' = m.st
    /\ attrarray' = m.attrarray
    /\ st_top' = m.st_top
    /\ nesting' = m.nesting
    /\ lowmem' = m.lowmem
    /\ strg_tbl' = m.strg_tbl
    /\ out' = m.out
    /\ status' = m.status
    /\ exitcode' = m.exitcode
    /\ ret' = m.ret
    /\ heap' = m.heap
    /\ found0' = m.found0
    /\ todo' = m.todo

\* the machine as a call finds it: the diagnostics of the call before are gone
Fresh == [Cur EXCEPT !.out = <<>>]

vars == <<stack, st, attrarray, st_top, nesting, lowmem, strg_tbl, out, status,
          exitcode, ret, phase, op, arg, opened, heap, found0, todo, SyntaxTree, source, runs,
          yyin, yyline, yycolumn, hash_tbl, chars, yylval>>

\* the scanner and the interner
lexvars == <<yyin, yyline, yycolumn, hash_tbl, chars, yylval>>

\* what only the analysis touches
anvars == <<SyntaxTree, source, runs, yyin, yyline, yycolumn, hash_tbl, chars, yylval>>

(***************************************************************************)
(* The string tables of the model: the lexemes a source text installed.    *)
(***************************************************************************)
UserLexemes == <<"a", "b", "c", "d", "e", "f", "g", "h">>

Prefixes == {<< >>, <<"system", "readln", "println">>, <<"p", "main", "system">>}

StrTables == {SubSeq(pre \o UserLexemes, 1, Cardinality(NameIds)) : pre \in Prefixes}

(***************************************************************************)
(* The comment scanner (lexer.l).  A scanner state l holds the unread      *)
(* input, the two counters, the lines printed and whether the process      *)
(* runs.  input() hands out the next character, and 0 at the end of the    *)
(* input.                                                                  *)
(***************************************************************************)
EndOfInput == "EOF"

\* the character input() returns
NextChar(l) == IF l.yyin = << >> THEN EndOfInput ELSE Head(l.yyin)

\* the scanner after input()
Consumed(l) == IF l.yyin = << >> THEN l ELSE [l EXCEPT !.yyin = Tail(@)]

\* void match(): called when the opener of a comment has been read.  The
\* character read after an asterisk is dropped when it is no slash.
RECURSIVE match(_)
match(l) ==
    LET nextchar == NextChar(l)
        l1       == [Consumed(l) EXCEPT !.yycolumn = @ + 1]
    IN  IF nextchar = "*"
        THEN IF NextChar(l1) = "/"
             THEN [Consumed(l1) EXCEPT !.yycolumn = @ + 1]
             ELSE match(Consumed(l1))
        ELSE IF nextchar = "\n"
        THEN match([l1 EXCEPT !.yyline = @ + 1, !.yycolumn = 0])
        ELSE IF nextchar = EndOfInput
        THEN [l1 EXCEPT !.printed = Append(@, "unexpected EOF found in comment"),
                        !.status = "exit", !.exitcode = 0]
        ELSE match(l1)

(***************************************************************************)
(* The string interner (string_hash_table.c), byte by byte.  A character   *)
(* is its code, a text the sequence of its characters; yyleng is the       *)
(* length of the text.  An interner state t holds hash_tbl (the chain of   *)
(* each bucket as a sequence of hash_ele records, head first), chars (the  *)
(* bytes 0..last-1 of strg_tbl; every byte after them is 0), yylval and    *)
(* whether the process runs.                                               *)
(***************************************************************************)
TBL_LEN == 101
STRTBL_LEN == 3001
STR_SPRTR == 0

\* the bitwise exclusive or of two naturals
RECURSIVE Xor(_, _)
Xor(a, b) ==
    IF a = 0 THEN b
    ELSE IF b = 0 THEN a
    ELSE ((a + b) % 2) + 2 * Xor(a \div 2, b \div 2)

\* one pass of the loop of hashpjw on the unsigned h, for the character c.
\* h is below 2^28 between the passes; (h << 4) + c is kept as its four high
\* bits, top, and its 28 low bits, low, so that no number leaves 32 bits:
\* g = top << 28, g >> 24 = top << 4, and h ^ g clears the four high bits.
hashpjwStep(h, c) ==
    LET sum == (h % (2 ^ 24)) * 16 + c
        low == sum % (2 ^ 28)
        top == ((h \div (2 ^ 24)) + (sum \div (2 ^ 28))) % 16
    IN  IF top # 0 THEN Xor(low, top * 16) ELSE low

RECURSIVE hashpjwFrom(_, _, _, _)
hashpjwFrom(s, l, i, h) ==
    IF i >= l THEN h ELSE hashpjwFrom(s, l, i + 1, hashpjwStep(h, s[i + 1]))

hashpjw(s, l) == hashpjwFrom(s, l, 0, 0) % TBL_LEN

last(t) == Len(t.chars)

\* strg_tbl[i]
CharAt(t, i) == IF i < last(t) THEN t.chars[i + 1] ELSE 0

\* text[i] of the C string text
TextAt(text, i) == IF i < Len(text) THEN text[i + 1] ELSE 0

\* strncmp(&strg_tbl[index], text, n) == 0, compared from character k on
RECURSIVE strncmpEqual(_, _, _, _, _)
strncmpEqual(t, index, text, n, k) ==
    IF k >= n THEN TRUE
    ELSE IF CharAt(t, index + k) # TextAt(text, k) THEN FALSE
    ELSE IF CharAt(t, index + k) = 0 THEN TRUE
    ELSE strncmpEqual(t, index, text, n, k + 1)

\* the first element of the chain, from position j on, whose string compares
\* equal to the first yyleng characters of text; 0 when there is none
RECURSIVE ChainFind(_, _, _, _)
ChainFind(t, chain, j, text) ==
    IF j > Len(chain) THEN 0
    ELSE IF strncmpEqual(t, chain[j].index, text, Len(text), 0) THEN j
    ELSE ChainFind(t, chain, j + 1, text)

\* the bytes that the copy loop stores for text[i..]: an escape sequence of a
\* string constant becomes the character it stands for
RECURSIVE Copied(_, _)
Copied(text, i) ==
    IF i >= Len(text) THEN << >>
    ELSE IF text[i + 1] # 92 THEN <<text[i + 1]>> \o Copied(text, i + 1)
    ELSE IF TextAt(text, i + 1) = 116 THEN <<9>> \o Copied(text, i + 2)
    ELSE IF TextAt(text, i + 1) = 110 THEN <<10>> \o Copied(text, i + 2)
    ELSE IF TextAt(text, i + 1) = 92 THEN <<92>> \o Copied(text, i + 2)
    ELSE IF TextAt(text, i + 1) = 39 THEN <<39>> \o Copied(text, i + 2)
    ELSE <<92>> \o Copied(text, i + 1)

\* void install_id(char *text, int tokenid), with yyleng the length of text
install_idBytes(t, text, tokenid) ==
    LET ind   == hashpjw(text, Len(text))
        chain == t.hash_tbl[ind]
        j     == ChainFind(t, chain, 1, text)
        p     == [id |-> tokenid, len |-> Len(text), index |-> last(t)]
    IN  IF t.status # "run" THEN t
        ELSE IF j # 0 THEN [t EXCEPT !.yylval = chain[j].index]
        ELSE IF last(t) + Len(text) > STRTBL_LEN
        THEN [t EXCEPT !.yylval = last(t), !.status = "exit", !.exitcode = 0,
                       !.printed = Append(@, "There is not enough space in string table!!!")]
        ELSE [t EXCEPT !.yylval = last(t),
                       !.hash_tbl[ind] = Append(@, p),
                       !.chars = @ \o Copied(text, 0) \o <<STR_SPRTR>>]

\* strlen(&strg_tbl[i])
RECURSIVE strlenAt(_, _)
strlenAt(t, i) == IF CharAt(t, i) = 0 THEN 0 ELSE 1 + strlenAt(t, i + 1)

\* the C string at &strg_tbl[i]
StringAt(t, i) == [k \in 1..strlenAt(t, i) |-> CharAt(t, i + k - 1)]

\* int loc_str(char *string), the scan from index i on
RECURSIVE loc_strBytesFrom(_, _, _)
loc_strBytesFrom(t, i, string) ==
    IF i >= last(t) THEN -1
    ELSE IF StringAt(t, i) = string THEN i
    ELSE loc_strBytesFrom(t, i + strlenAt(t, i) + 1, string)

loc_strBytes(t, string) == loc_strBytesFrom(t, 0, string)

\* the scanner has read nothing and the interner holds nothing
IdleLexer ==
    /\ yyin = << >>
    /\ yyline = 0
    /\ yycolumn = 0
    /\ hash_tbl = [b \in 0..(TBL_LEN - 1) |-> << >>]
    /\ chars = << >>
    /\ yylval = 0

(***************************************************************************)
(* Specification Spec: a driver that calls STInit and then the routines of *)
(* the symbol-table interface in any order with any name.                  *)
(***************************************************************************)
ZeroGlobals ==
    /\ stack = << >>
    /\ st = [i \in {0} |-> 0]
    /\ attrarray = << >>
    /\ st_top = 0
    /\ nesting = 0
    /\ out = << >>
    /\ status = "run"
    /\ exitcode = 0
    /\ ret = 0

Init ==
    /\ ZeroGlobals
    /\ IdleLexer
    /\ lowmem \in LowMemChoices
    /\ strg_tbl \in StrTables
    /\ phase = "boot"
    /\ op = "none"
    /\ arg = 0
    /\ opened = << >>
    /\ found0 = FALSE
    /\ todo = << >>
    /\ heap = <<dummyNode>>
    /\ SyntaxTree = NullExp
    /\ source = "none"
    /\ runs = << >>

CallSTInit ==
    /\ phase = "boot"
    /\ Set(STInit(Fresh))
    /\ Len(stack') <= MaxFrames /\ st_top' <= MaxSyms
    /\ phase' = "ready"
    /\ op' = "STInit"
    /\ arg' = 0
    /\ UNCHANGED opened
    /\ UNCHANGED anvars

CallOpenBlock ==
    /\ phase = "ready" /\ status = "run"
    /\ Set(OpenBlock(Fresh))
    /\ Len(stack') <= MaxFrames
    /\ op' = "OpenBlock"
    /\ arg' = 0
    /\ opened' = Append(opened, [stack |-> stack, nesting |-> nesting])
    /\ UNCHANGED phase
    /\ UNCHANGED anvars

CallCloseBlock ==
    /\ phase = "ready" /\ status = "run"
    /\ HasMarker(Cur)
    /\ Set(CloseBlock(Fresh))
    /\ op' = "CloseBlock"
    /\ arg' = 0
    /\ opened' = SubSeq(opened, 1, Len(opened) - 1)
    /\ UNCHANGED phase
    /\ UNCHANGED anvars

CallInsertEntry ==
    /\ phase = "ready" /\ status = "run"
    /\ \E id \in NameIds :
          /\ Set(InsertEntry(Fresh, id))
          /\ arg' = id
    /\ Len(stack') <= MaxFrames /\ st_top' <= MaxSyms
    /\ op' = "InsertEntry"
    /\ UNCHANGED <<phase, opened>>
    /\ UNCHANGED anvars

CallLookUp ==
    /\ phase = "ready" /\ status = "run"
    /\ \E id \in NameIds :
          /\ Set(LookUp(Fresh, id))
          /\ arg' = id
    /\ Len(stack') <= MaxFrames
    /\ op' = "LookUp"
    /\ UNCHANGED <<phase, opened>>
    /\ UNCHANGED anvars

Next ==
    \/ CallSTInit
    \/ CallOpenBlock
    \/ CallCloseBlock
    \/ CallInsertEntry
    \/ CallLookUp

Spec == Init /\ [][Next]_vars

(***************************************************************************)
(* The programs of the model, as the parser reads them.                    *)
(***************************************************************************)
\* a program repeats an undeclared name, or a method main, up to this often
MaxRepeat == 2

IntT == [base |-> "int", dims |-> 0]
VoidT == [base |-> "void", dims |-> 0]
ClassT(c) == [base |-> c, dims |-> 0]
ArrT(b, n) == [base |-> b, dims |-> n]
Num(n) == [k |-> "num", v |-> n]
Ref(b, chain) == [k |-> "var", base |-> b, chain |-> chain]
Fld(n) == [k |-> "field", name |-> n]
Idx(e) == [k |-> "index", e |-> e]
Assign(v, e) == [k |-> "assign", var |-> v, e |-> e]
Call(v, args) == [k |-> "call", var |-> v, args |-> args]
Decl(t, names) ==
    [type |-> t, vars |-> [i \in 1..Len(names) |-> [name |-> names[i], init |-> [k |-> "none"]]]]
Method(ret0, name, params, decls, stmts) ==
    [ret |-> ret0, name |-> name, params |-> params, decls |-> decls, stmts |-> stmts]
Class(name, decls, methods) == [name |-> name, decls |-> decls, methods |-> methods]
Prog(classes) == [name |-> "p", classes |-> classes]

\* method void <name>() { }
Empty(name) == Method(VoidT, name, << >>, << >>, << >>)

Letters == <<"a", "b", "c", "d", "e">>

\* class a { declarations int x; enddeclarations method void f(int y) { x := y } }
PGood ==
    Prog(<<Class("a", <<Decl(IntT, <<"x">>)>>,
                 <<Method(VoidT, "f", <<[val |-> FALSE, name |-> "y"]>>, << >>,
                          <<Assign(Ref("x", << >>), Ref("y", << >>))>>)>>)>>)

\* class a { }  class a { method void f() { } }
PDupClass == Prog(<<Class("a", << >>, << >>), Class("a", << >>, <<Empty("f")>>)>>)

\* class a { method void f() { }  method void f() { } }
PDupMethod == Prog(<<Class("a", << >>, <<Empty("f"), Empty("f")>>)>>)

\* class a { method void main() { } ... }, with j + 1 methods main
PMainsSame(j) == Prog(<<Class("a", << >>, [i \in 1..(j + 1) |-> Empty("main")])>>)

\* class a { method void main() { } }  class b { method void main() { } } ...
PMainsOther(j) == Prog([i \in 1..(j + 1) |-> Class(Letters[i], << >>, <<Empty("main")>>)])

\* class main { method void main() { } }
PClassMain == Prog(<<Class("main", << >>, <<Empty("main")>>)>>)

\* class a { method void f(val int main) { } }  class b { method void main() { } }
PParamMain ==
    Prog(<<Class("a", << >>,
                 <<Method(VoidT, "f", <<[val |-> TRUE, name |-> "main"]>>, << >>, << >>)>>),
           Class("b", << >>, <<Empty("main")>>)>>)

\* class a { method void f() { x := 1; ... } }: k uses of the undeclared x
PUndeclVar(k) ==
    Prog(<<Class("a", << >>,
                 <<Method(VoidT, "f", << >>, << >>,
                          [i \in 1..k |-> Assign(Ref("x", << >>), Num(1))])>>)>>)

\* class a { declarations b a; b b; ... enddeclarations }: k uses of the undeclared type x
PUndeclType(k) ==
    Prog(<<Class("y", [i \in 1..k |-> Decl(ClassT("x"), <<Letters[i]>>)], << >>)>>)

\* class a { method a f() { } }
PRetClass == Prog(<<Class("a", << >>, <<Method(ClassT("a"), "f", << >>, << >>, << >>)>>)>>)

\* class a { declarations int x; enddeclarations }
\* class b { declarations a y; enddeclarations method void f() { y.<field> := 1 } }
PField(field) ==
    Prog(<<Class("a", <<Decl(IntT, <<"x">>)>>, << >>),
           Class("b", <<Decl(ClassT("a"), <<"y">>)>>,
                 <<Method(VoidT, "f", << >>, << >>,
                          <<Assign(Ref("y", <<Fld(field)>>), Num(1))>>)>>)>>)

\* class a { method void f() { }  method void g() { f.x := 1 } }
PMethodMember ==
    Prog(<<Class("a", << >>,
                 <<Empty("f"),
                   Method(VoidT, "g", << >>, << >>,
                          <<Assign(Ref("f", <<Fld("x")>>), Num(1))>>)>>)>>)

\* class a { declarations <base>[] x; int y; enddeclarations
\*           method void f() { x[<index>] := 2 } }
PArr(base, index) ==
    Prog(<<Class("a", <<Decl(ArrT(base, 1), <<"x">>), Decl(IntT, <<"y">>)>>,
                 <<Method(VoidT, "f", << >>, << >>,
                          <<Assign(Ref("x", <<Idx(index)>>), Num(2))>>)>>)>>)

\* class a { }  class b { declarations a x, y; enddeclarations }
PTwoDeclarators ==
    Prog(<<Class("a", << >>, << >>), Class("b", <<Decl(ClassT("a"), <<"x", "y">>)>>, << >>)>>)

\* class a { method void main() { declarations int x; enddeclarations system.println(x) } }
PSystem ==
    Prog(<<Class("a", << >>,
                 <<Method(VoidT, "main", << >>, <<Decl(IntT, <<"x">>)>>,
                          <<Call(Ref("system", <<Fld("println")>>), <<Ref("x", << >>)>>)>>)>>)>>)

\* an array has up to this many dimensions
MaxDims == 2

\* the element types of the arrays: int, the declared class a, the undeclared b
ElemTypes == {"int", "a", "b"}

\* class a { declarations <base>[]...[] x; enddeclarations
\*           method void f() { x[1]...[1] := 2 } }: n dimensions, k subscripts
PIdx(base, n, k) ==
    Prog(<<Class("a", <<Decl(ArrT(base, n), <<"x">>)>>,
                 <<Method(VoidT, "f", << >>, << >>,
                          <<Assign(Ref("x", [i \in 1..k |-> Idx(Num(1))]), Num(2))>>)>>)>>)

IdxPrograms == {PIdx(base, n, k) : base \in ElemTypes, n \in 1..MaxDims, k \in 0..(MaxDims + 1)}

\* the accesses after the subscripts: .length, .length.z, .length[1], .z
Tails == {<<Fld("length")>>, <<Fld("length"), Fld("z")>>, <<Fld("length"), Idx(Num(1))>>,
          <<Fld("z")>>}

\* class a { declarations <base>[]...[] x; enddeclarations
\*           method void f() { x[1]...[1]<tail> := 2 } }: n dimensions, k subscripts
PLen(base, n, k, tail) ==
    Prog(<<Class("a", <<Decl(ArrT(base, n), <<"x">>)>>,
                 <<Method(VoidT, "f", << >>, << >>,
                          <<Assign(Ref("x", [i \in 1..k |-> Idx(Num(1))] \o tail), Num(2))>>)>>)>>)

LenPrograms ==
    {PLen(base, n, k, tail) :
        base \in ElemTypes, n \in 1..MaxDims, k \in 0..MaxDims, tail \in Tails}

\* the accesses on a scalar: none, .z, .z.w, [1], [y], [1].z
ScalarChains == {<< >>, <<Fld("z")>>, <<Fld("z"), Fld("w")>>, <<Idx(Num(1))>>,
                 <<Idx(Ref("y", << >>))>>, <<Idx(Num(1)), Fld("z")>>}

\* class a { declarations int x; int y; enddeclarations method void f() { x<chain> := 1 } }
PScalar(chain) ==
    Prog(<<Class("a", <<Decl(IntT, <<"x">>), Decl(IntT, <<"y">>)>>,
                 <<Method(VoidT, "f", << >>, << >>, <<Assign(Ref("x", chain), Num(1))>>)>>)>>)

ScalarPrograms == {PScalar(chain) : chain \in ScalarChains}

\* the accesses on a method: none, .z, [1]
RoutineChains == {<< >>, <<Fld("z")>>, <<Idx(Num(1))>>}

\* class a { method <ret0> f() { }  method void g() { f<chain>(); q := 1 } }, q undeclared
PRoutine(ret0, chain) ==
    Prog(<<Class("a", << >>,
                 <<Method(ret0, "f", << >>, << >>, << >>),
                   Method(VoidT, "g", << >>, << >>,
                          <<Call(Ref("f", chain), << >>),
                            Assign(Ref("q", << >>), Num(1))>>)>>)>>)

\* class a { method void g() { system.println<chain> := 1; q := 1 } }, q undeclared
PSystemMember(chain) ==
    Prog(<<Class("a", << >>,
                 <<Method(VoidT, "g", << >>, << >>,
                          <<Assign(Ref("system", <<Fld("println")>> \o chain), Num(1)),
                            Assign(Ref("q", << >>), Num(1))>>)>>)>>)

RoutinePrograms ==
    {PRoutine(ret0, chain) : ret0 \in {VoidT, IntT}, chain \in RoutineChains}
    \cup {PSystemMember(chain) : chain \in RoutineChains}

\* program <pname>; class <names[1]> { } class <names[2]> { } ...
PEmpty(pname, names) ==
    [name |-> pname, classes |-> [i \in 1..Len(names) |-> Class(names[i], << >>, << >>)]]

EmptyPrograms ==
    {PEmpty(pname, names) : pname \in {"p", "system"},
                            names \in {<<"a">>, <<"a", "b">>, <<"println", "readln">>}}

\* the accesses on z that resolve: .y, .y.x, .q
ResolvedChains == {<<Fld("y")>>, <<Fld("y"), Fld("x")>>, <<Fld("q")>>}

\* the accesses on z whose last field is no member of the class it is looked up in:
\* u is declared nowhere; x is a member of a, not of b; q is a parameter and r a
\* local of a's method m, and q is a member of b, not of a
UnknownChains == {<<Fld("u")>>, <<Fld("x")>>, <<Fld("y"), Fld("u")>>, <<Fld("y"), Fld("q")>>,
                  <<Fld("y"), Fld("r")>>}

\* class a { declarations int x; enddeclarations
\*           method void m(val int q) { declarations int r; enddeclarations } }
\* class b { declarations a y; int q; enddeclarations }
\* class c { declarations b z; enddeclarations method void f() { z<chain> := 1 } }
PMember(chain) ==
    Prog(<<Class("a", <<Decl(IntT, <<"x">>)>>,
                 <<Method(VoidT, "m", <<[val |-> TRUE, name |-> "q"]>>,
                          <<Decl(IntT, <<"r">>)>>, << >>)>>),
           Class("b", <<Decl(ClassT("a"), <<"y">>), Decl(IntT, <<"q">>)>>, << >>),
           Class("c", <<Decl(ClassT("b"), <<"z">>)>>,
                 <<Method(VoidT, "f", << >>, << >>, <<Assign(Ref("z", chain), Num(1))>>)>>)>>)

MemberPrograms == {PMember(chain) : chain \in ResolvedChains \cup UnknownChains}

\* a declarator without an initializer, and one with the initializer e
Plain(name) == [name |-> name, init |-> [k |-> "none"]]
Init0(name, e) == [name |-> name, init |-> e]

\* the declarators of one declaration: x, y, z;  x, y = x;  x, y, x;  x = 1, y = x, z = y
DeclaratorLists ==
    {<<Plain("x"), Plain("y"), Plain("z")>>,
     <<Plain("x"), Init0("y", Ref("x", << >>))>>,
     <<Plain("x"), Plain("y"), Plain("x")>>,
     <<Init0("x", Num(1)), Init0("y", Ref("x", << >>)), Init0("z", Ref("y", << >>))>>}

\* class a { declarations int <declarators>; enddeclarations }
PDecls(declarators) == Prog(<<Class("a", <<[type |-> IntT, vars |-> declarators]>>, << >>)>>)

DeclPrograms == {PDecls(declarators) : declarators \in DeclaratorLists}

\* the accesses on a parameter or on a variable of an unknown class: none, .z
ArgChains == {<< >>, <<Fld("z")>>}

\* class a { method void f(<val|ref> int y) { y<chain> := 1 } }
PArg(val, chain) ==
    Prog(<<Class("a", << >>,
                 <<Method(VoidT, "f", <<[val |-> val, name |-> "y"]>>, << >>,
                          <<Assign(Ref("y", chain), Num(1))>>)>>)>>)

\* class a { declarations b x; enddeclarations method void f() { x<chain> := 1 } },
\* b undeclared
PUnresolved(chain) ==
    Prog(<<Class("a", <<Decl(ClassT("b"), <<"x">>)>>,
                 <<Method(VoidT, "f", << >>, << >>, <<Assign(Ref("x", chain), Num(1))>>)>>)>>)

ArgPrograms ==
    {PArg(val, chain) : val \in BOOLEAN, chain \in ArgChains}
    \cup {PUnresolved(chain) : chain \in ArgChains}

Programs ==
    {PGood, PDupClass, PDupMethod, PClassMain, PParamMain, PRetClass, PField("x"), PField("g"),
     PMethodMember, PArr("int", Num(1)), PArr("int", Ref("y", << >>)), PArr("b", Num(1)),
     PTwoDeclarators, PSystem}
    \cup {PMainsSame(j) : j \in 1..MaxRepeat} \cup {PMainsOther(j) : j \in 1..MaxRepeat}
    \cup {PUndeclVar(k) : k \in 1..MaxRepeat} \cup {PUndeclType(k) : k \in 1..MaxRepeat}
    \cup IdxPrograms \cup LenPrograms \cup ScalarPrograms \cup RoutinePrograms
    \cup EmptyPrograms \cup MemberPrograms \cup DeclPrograms \cup ArgPrograms

(***************************************************************************)
(* Specification SpecAn: the compiler front end on one program.  The       *)
(* syntax tree and the string table are as yyparse leaves them; the symbol *)
(* table is initialised and MkST runs on the root, and then once more on   *)
(* the tree the first run has left.                                        *)
(***************************************************************************)
\* the machine of a process that has just started
Blank(lm, f) ==
    [stack |-> << >>, st |-> [i \in {0} |-> 0], attrarray |-> << >>, st_top |-> 0,
     nesting |-> 0, lowmem |-> lm, strg_tbl |-> << >>, out |-> << >>, status |-> "run",
     exitcode |-> 0, ret |-> 0, heap |-> <<dummyNode>>, found0 |-> f, todo |-> << >>]

\* the variables hold the machine m
Holds(m) ==
    /\ stack = m.stack
    /\ st = m.st
    /\ attrarray = m.attrarray
    /\ st_top = m.st_top
    /\ nesting = m.nesting
    /\ lowmem = m.lowmem
    /\ strg_tbl = m.strg_tbl
    /\ out = m.out
    /\ status = m.status
    /\ exitcode = m.exitcode
    /\ ret = m.ret
    /\ heap = m.heap
    /\ found0 = m.found0
    /\ todo = m.todo

InitAn ==
    /\ source \in Programs
    /\ \E lm \in LowMemChoices, f \in BOOLEAN : Holds(Program(Blank(lm, f), source))
    /\ SyntaxTree = ret
    /\ phase = "parsed"
    /\ op = "yyparse"
    /\ arg = 0
    /\ opened = << >>
    /\ runs = << >>
    /\ IdleLexer

RunSTInit ==
    /\ phase = "parsed"
    /\ Set(STInit(Cur))
    /\ phase' = "inited"
    /\ op' = "STInit"
    /\ UNCHANGED <<arg, opened, anvars>>

\* MkST(SyntaxTree) is called: for the first time, and again when it has returned
CallMkST ==
    /\ phase \in {"inited", "analyzed"} /\ status = "run"
    /\ Set([Cur EXCEPT !.todo = <<Task("MkST", SyntaxTree)>>])
    /\ runs' = Append(runs, Cur)
    /\ phase' = IF phase = "inited" THEN "run1" ELSE "run2"
    /\ op' = "call"
    /\ arg' = SyntaxTree
    /\ UNCHANGED <<opened, SyntaxTree, source>>
    /\ UNCHANGED lexvars

Running1 == phase \in {"run1", "run2"} /\ status = "run" /\ todo # << >>

\* the node the next task is about
Target == IF Head(todo).k = "MkST right" THEN RightChild(Cur, Head(todo).node)
          ELSE Head(todo).node

\* the next call of MkST: the handler of the node runs up to its first call of MkST
StepMkST ==
    /\ Running1 /\ Head(todo).k \in {"MkST", "MkST right"}
    /\ Set(Resume(Cur))
    /\ op' = HandlerOf(Cur, Target)
    /\ arg' = Target
    /\ UNCHANGED <<phase, opened, anvars>>

\* declop goes on with the declarator before, after MkST on an initializer
StepDeclop ==
    /\ Running1 /\ Head(todo).k = "declop"
    /\ Set(Resume(Cur))
    /\ op' = "declop next"
    /\ arg' = Target
    /\ UNCHANGED <<phase, opened, anvars>>

\* classdefop or methodop closes its block
StepCloseBlock ==
    /\ Running1 /\ Head(todo).k = "CloseBlock"
    /\ Set(Resume(Cur))
    /\ op' = "CloseBlock"
    /\ arg' = Target
    /\ UNCHANGED <<phase, opened, anvars>>

\* MkST(SyntaxTree) returns
ReturnMkST ==
    /\ phase \in {"run1", "run2"} /\ status = "run" /\ todo = << >>
    /\ phase' = IF phase = "run1" THEN "analyzed" ELSE "again"
    /\ op' = "return"
    /\ arg' = SyntaxTree
    /\ UNCHANGED <<stack, st, attrarray, st_top, nesting, lowmem, strg_tbl, out, status,
                   exitcode, ret, heap, found0, todo, opened, anvars>>

NextAn ==
    \/ RunSTInit
    \/ CallMkST
    \/ StepMkST
    \/ StepDeclop
    \/ StepCloseBlock
    \/ ReturnMkST

SpecAn == InitAn /\ [][NextAn]_vars

(***************************************************************************)
(* Specification SpecCap: a driver that fills one of the tables until the  *)
(* program stops.  In phase "blocks" it opens block in block; in phase     *)
(* "scoped" it declares new names, ScopeLen to a block, each block closed  *)
(* before the next is opened; in phase "attrs" it declares new names in    *)
(* one block and sets AttrsPer more attributes of each.                    *)
(***************************************************************************)
\* the declarations of one block of phase "scoped"
ScopeLen == 50
\* the attributes set on one name in phase "attrs", after its name and nesting
AttrsPer == 20

\* a name that no declaration before has used, and no word below the stack holds
FreshName == st_top + 2

\* the number of attributes of the symbol-table entry i
RECURSIVE AttrCount(_, _)
AttrCount(m, c) == IF c = 0 THEN 0 ELSE 1 + AttrCount(m, m.attrarray[c].next_attr)

InitCap ==
    /\ ZeroGlobals
    /\ IdleLexer
    /\ lowmem \in LowMemChoices
    /\ strg_tbl = SubSeq(UserLexemes, 1, Cardinality(NameIds))
    /\ phase \in {"blocks", "scoped", "attrs"}
    /\ op = "none"
    /\ arg = 0
    /\ opened = << >>
    /\ found0 = FALSE
    /\ todo = << >>
    /\ heap = <<dummyNode>>
    /\ SyntaxTree = NullExp
    /\ source = "none"
    /\ runs = << >>

FillOpenBlock ==
    /\ status = "run"
    /\ \/ phase = "blocks"
       \/ phase = "scoped" /\ stack = << >>
    /\ Set(OpenBlock(Fresh))
    /\ op' = "OpenBlock"
    /\ arg' = 0
    /\ UNCHANGED <<phase, opened>>
    /\ UNCHANGED anvars

FillInsertEntry ==
    /\ status = "run"
    /\ \/ phase = "scoped" /\ Len(stack) \in 1..ScopeLen
       \/ phase = "attrs" /\ (st_top = 0 \/ AttrCount(Cur, StAt(Cur, st_top)) >= 2 + AttrsPer)
    /\ Set(InsertEntry(Fresh, FreshName))
    /\ op' = "InsertEntry"
    /\ arg' = FreshName
    /\ UNCHANGED <<phase, opened>>
    /\ UNCHANGED anvars

FillCloseBlock ==
    /\ status = "run"
    /\ phase = "scoped" /\ Len(stack) > ScopeLen
    /\ Set(CloseBlock(Fresh))
    /\ op' = "CloseBlock"
    /\ arg' = 0
    /\ UNCHANGED <<phase, opened>>
    /\ UNCHANGED anvars

\* the next attribute of the newest name: the kinds after NEST_ATTR, in order
FillSetAttr ==
    /\ status = "run"
    /\ phase = "attrs" /\ st_top > 0
    /\ AttrCount(Cur, StAt(Cur, st_top)) < 2 + AttrsPer
    /\ LET kind == NEST_ATTR + AttrCount(Cur, StAt(Cur, st_top)) - 1
       IN  /\ Set([SetAttr(Fresh, st_top, kind, 1) EXCEPT !.ret = 0])
           /\ arg' = kind
    /\ op' = "SetAttr"
    /\ UNCHANGED <<phase, opened>>
    /\ UNCHANGED anvars

NextCap ==
    \/ FillOpenBlock
    \/ FillInsertEntry
    \/ FillCloseBlock
    \/ FillSetAttr

SpecCap == InitCap /\ [][NextCap]_vars

(***************************************************************************)
(* Specification SpecAttr: a driver that declares names and sets           *)
(* attributes of the entries, and of the entry 0 that a refused            *)
(* declaration returns, in any order.                                      *)
(***************************************************************************)
\* the driver leaves no more cells than this in the attribute pool
MaxCells == 4
\* ... and no more symbol-table entries than this
MaxAttrSyms == 1

AttrKinds == {NAME_ATTR, KIND_ATTR, DIMEN_ATTR}

AttrVals == {1, 2}

InitAttr ==
    /\ ZeroGlobals
    /\ IdleLexer
    /\ lowmem = <<StopEntry>>
    /\ strg_tbl = SubSeq(UserLexemes, 1, Cardinality(NameIds))
    /\ phase = "attr"
    /\ op = "none"
    /\ arg = <<0, 0, 0>>
    /\ opened = << >>
    /\ found0 = FALSE
    /\ todo = << >>
    /\ heap = <<dummyNode>>
    /\ SyntaxTree = NullExp
    /\ source = "none"
    /\ runs = << >>

AttrInsertEntry ==
    /\ status = "run" /\ st_top < MaxAttrSyms
    /\ Set(InsertEntry(Fresh, FreshName))
    /\ Len(attrarray') <= MaxCells
    /\ op' = "InsertEntry"
    /\ arg' = <<FreshName, 0, 0>>
    /\ UNCHANGED <<phase, opened>>
    /\ UNCHANGED anvars

AttrSetAttr ==
    /\ status = "run"
    /\ \E st_ptr \in 0..st_top, attr_num \in AttrKinds, attr_val \in AttrVals :
          /\ Set([SetAttr(Fresh, st_ptr, attr_num, attr_val) EXCEPT !.ret = 0])
          /\ arg' = <<st_ptr, attr_num, attr_val>>
    /\ Len(attrarray') <= MaxCells
    /\ op' = "SetAttr"
    /\ UNCHANGED <<phase, opened>>
    /\ UNCHANGED anvars

NextAttr ==
    \/ AttrInsertEntry
    \/ AttrSetAttr

SpecAttr == InitAttr /\ [][NextAttr]_vars

(***************************************************************************)
(* List assembly on its own: two trees as the parser's actions build them  *)
(* with MakeLeaf() and MakeTree(), then one MkLeftC() or MkRightC().       *)
(* A shape is << >> for the dummy, <<n>> for a leaf, <<l, r>> for a node.  *)
(***************************************************************************)
MaxTreeDepth == 2

RECURSIVE Shapes(_)
Shapes(d) ==
    IF d = 0 THEN {<< >>, <<0>>}
    ELSE {<< >>, <<0>>} \cup {<<l, r>> : l \in Shapes(d - 1), r \in Shapes(d - 1)}

\* the tree of shape s, built bottom-up as the grammar's actions do
RECURSIVE Build(_, _)
Build(m, s) ==
    IF Len(s) = 0 THEN [m EXCEPT !.ret = NullExp]
    ELSE IF Len(s) = 1 THEN MakeLeaf(m, IDNode, s[1])
    ELSE With(Build(m, s[1]), LAMBDA m1 :
         With(Build(m1, s[2]), LAMBDA m2 :
         MakeTree(m2, CommaOp, m1.ret, m2.ret)))

InitTree ==
    /\ ZeroGlobals
    /\ IdleLexer
    /\ lowmem = <<StopEntry>>
    /\ strg_tbl = << >>
    /\ phase = "tree"
    /\ op = "none"
    /\ opened = << >>
    /\ found0 = FALSE
    /\ todo = << >>
    /\ SyntaxTree = NullExp
    /\ source = "none"
    /\ runs = << >>
    /\ \E s1 \in Shapes(1), s2 \in Shapes(MaxTreeDepth) :
          LET m1 == Build(Blank(<<StopEntry>>, FALSE), s1)
              m2 == Build(m1, s2)
          IN  /\ heap = m2.heap
              /\ arg = <<m1.ret, m2.ret>>

TreeMkLeftC ==
    /\ phase = "tree"
    /\ Set(MkLeftC(Cur, arg[1], arg[2]))
    /\ phase' = "joined"
    /\ op' = "MkLeftC"
    /\ UNCHANGED <<arg, opened>>
    /\ UNCHANGED anvars

TreeMkRightC ==
    /\ phase = "tree"
    /\ Set(MkRightC(Cur, arg[1], arg[2]))
    /\ phase' = "joined"
    /\ op' = "MkRightC"
    /\ UNCHANGED <<arg, opened>>
    /\ UNCHANGED anvars

NextTree ==
    \/ TreeMkLeftC
    \/ TreeMkRightC

SpecTree == InitTree /\ [][NextTree]_vars

(***************************************************************************)
(* Specification SpecLex: the scanner has just read the opener of a        *)
(* comment; the rule of the opener counts its two columns and calls        *)
(* match() on the rest of the input.                                       *)
(***************************************************************************)
\* the input after the opener has up to this many characters
MaxInput == 4

\* an asterisk, a slash, a newline, and any other character
CommentChars == {"*", "/", "\n", "x"}

Inputs == UNION {[1..n -> CommentChars] : n \in 0..MaxInput}

\* the scanner held by the variables
Scanner ==
    [yyin |-> yyin, yyline |-> yyline, yycolumn |-> yycolumn, printed |-> out,
     status |-> status, exitcode |-> exitcode]

InitLex ==
    /\ ZeroGlobals
    /\ lowmem = <<StopEntry>>
    /\ strg_tbl = << >>
    /\ phase = "opener"
    /\ op = "none"
    /\ arg = 0
    /\ opened = << >>
    /\ found0 = FALSE
    /\ todo = << >>
    /\ heap = <<dummyNode>>
    /\ SyntaxTree = NullExp
    /\ runs = << >>
    /\ yyin \in Inputs
    /\ source = yyin
    /\ yyline = 0
    /\ yycolumn = 0
    /\ hash_tbl = [b \in 0..(TBL_LEN - 1) |-> << >>]
    /\ chars = << >>
    /\ yylval = 0

\* {slashstar} { yycolumn += yyleng; match(); }
slashstar ==
    /\ phase = "opener"
    /\ LET l == match([Scanner EXCEPT !.yycolumn = @ + 2])
       IN  /\ yyin' = l.yyin
           /\ yyline' = l.yyline
           /\ yycolumn' = l.yycolumn
           /\ out' = l.printed
           /\ status' = l.status
           /\ exitcode' = l.exitcode
    /\ phase' = "scanned"
    /\ op' = "match"
    /\ UNCHANGED <<stack, st, attrarray, st_top, nesting, lowmem, strg_tbl, ret, arg, opened,
                   heap, found0, todo, SyntaxTree, source, runs, hash_tbl, chars, yylval>>

NextLex == slashstar

SpecLex == InitLex /\ [][NextLex]_vars

(***************************************************************************)
(* Specification SpecStr: the lexer interns texts with install_id, and     *)
(* loc_str is asked for texts, in any order.                               *)
(***************************************************************************)
\* install_id is called up to this many times
MaxInstalls == 3

\* the identifiers a, ae, aeo and b, and the string constant '\n' (with the two
\* characters backslash and n between the quotes)
Texts == {<<97>>, <<97, 101>>, <<97, 101, 111>>, <<98>>, <<39, 92, 110, 39>>}

TokenOf(text) == IF text[1] = 39 THEN "SCONSTnum" ELSE "IDnum"

\* the interner held by the variables
Interner ==
    [hash_tbl |-> hash_tbl, chars |-> chars, yylval |-> yylval, printed |-> out,
     status |-> status, exitcode |-> exitcode]

InitStr ==
    /\ ZeroGlobals
    /\ IdleLexer
    /\ lowmem = <<StopEntry>>
    /\ strg_tbl = << >>
    /\ phase = "lexing"
    /\ op = "none"
    /\ arg = << >>
    /\ opened = << >>
    /\ found0 = FALSE
    /\ todo = << >>
    /\ heap = <<dummyNode>>
    /\ SyntaxTree = NullExp
    /\ source = "none"
    /\ runs = << >>

\* the lexer meets the token text; runs keeps the text and the index it was given
CallInstallId ==
    /\ status = "run" /\ Len(runs) < MaxInstalls
    /\ \E text \in Texts :
          LET t == install_idBytes(Interner, text, TokenOf(text))
          IN  /\ hash_tbl' = t.hash_tbl
              /\ chars' = t.chars
              /\ yylval' = t.yylval
              /\ out' = t.printed
              /\ status' = t.status
              /\ exitcode' = t.exitcode
              /\ arg' = text
              /\ runs' = Append(runs, [text |-> text, yylval |-> t.yylval])
    /\ op' = "install_id"
    /\ UNCHANGED <<stack, st, attrarray, st_top, nesting, lowmem, strg_tbl, ret, phase, opened,
                   heap, found0, todo, SyntaxTree, source, yyin, yyline, yycolumn>>

CallLocStr ==
    /\ status = "run"
    /\ \E string \in Texts :
          /\ ret' = loc_strBytes(Interner, string)
          /\ arg' = string
    /\ op' = "loc_str"
    /\ UNCHANGED <<stack, st, attrarray, st_top, nesting, lowmem, strg_tbl, out, status,
                   exitcode, phase, opened, heap, found0, todo, SyntaxTree, source, runs,
                   yyin, yyline, yycolumn, hash_tbl, chars, yylval>>

NextStr ==
    \/ CallInstallId
    \/ CallLocStr

SpecStr == InitStr /\ [][NextStr]_vars

(***************************************************************************)
(* Vocabulary of the claims about the symbol-table interface.              *)
(***************************************************************************)
\* a live binding: a frame that is neither a block marker nor a dummy
Live(f) == ~f.marker /\ ~f.dummy

\* the number of block markers among the first i frames of stk
MarkersBelow(stk, i) == Cardinality({k \in 1..i : stk[k].marker})

\* the index of the topmost block marker of stk, 0 when there is none
TopMarker(stk) ==
    LET ms == {k \in 1..Len(stk) : stk[k].marker}
    IN  IF ms = {} THEN 0 ELSE CHOOSE k \in ms : \A j \in ms : j <= k

\* the live bindings of name id in the current (innermost) scope of stk
BoundHere(stk, id) ==
    {k \in (TopMarker(stk) + 1)..Len(stk) : Live(stk[k]) /\ stk[k].name = id}

\* the live bindings of name id anywhere on stk
BoundAnywhere(stk, id) == {k \in 1..Len(stk) : Live(stk[k]) /\ stk[k].name = id}

Max(S) == CHOOSE k \in S : \A j \in S : j <= k

\* stk with every used flag cleared
WithoutUsed(stk) == [k \in 1..Len(stk) |-> [stk[k] EXCEPT !.used = FALSE]]

(***************************************************************************)
(* C1.  Redeclaration invariant: in every reachable state, two live        *)
(* bindings (non-marker, non-dummy frames) with the same name are          *)
(* separated by a block marker: no scope segment holds a name twice.       *)
(***************************************************************************)
C1_RedeclarationInvariant ==
    \A i, j \in 1..Len(stack) :
        (i < j /\ Live(stack[i]) /\ Live(stack[j]) /\ stack[i].name = stack[j].name)
            => \E k \in (i + 1)..(j - 1) : stack[k].marker

\* InsertEntry has just refused a name that is bound in the current scope, while
\* the same name is also bound in an enclosing scope
C1_Witness ==
    /\ op = "InsertEntry" /\ ret = 0
    /\ BoundHere(stack, arg) # {}
    /\ BoundAnywhere(stack, arg) \ BoundHere(stack, arg) # {}

(***************************************************************************)
(* C2.  InsertEntry(name) fails (one Redeclaration diagnostic, result 0,   *)
(* symbol table, attribute pool and scope stack unchanged) exactly when a  *)
(* live binding of name is in the current scope; otherwise it appends one  *)
(* entry, pushes the frame (name, sym, dummy = false, used = false) and    *)
(* returns the new id.                                                     *)
(***************************************************************************)
C2_InsertEntryFailsIffBoundHere ==
    [][op' = "InsertEntry" =>
         /\ (ret' = 0) <=> (BoundHere(stack, arg') # {})
         /\ ret' = 0 =>
               /\ out' = <<(<<REDECLARATION, arg'>>)>>
               /\ stack' = stack /\ st' = st /\ attrarray' = attrarray /\ st_top' = st_top
         /\ ret' # 0 =>
               /\ out' = << >>
               /\ st_top' = st_top + 1 /\ ret' = st_top'
               /\ stack' = Append(stack, StackEntry(FALSE, arg', ret', FALSE, FALSE))]_vars

(***************************************************************************)
(* C3.  Every symbol InsertEntry has returned carries the attributes Name  *)
(* and Nest, its Name is the name that was inserted, and the Nest of the   *)
(* symbol of every live binding pushed inside a block equals the number of *)
(* blocks open when it was pushed (the markers below it).                  *)
(***************************************************************************)
C3_NameAndNest ==
    /\ \A s \in 1..st_top : IsAttr(Cur, s, NAME_ATTR) # 0 /\ IsAttr(Cur, s, NEST_ATTR) # 0
    /\ (op = "InsertEntry" /\ ret # 0) => GetAttr(Cur, ret, NAME_ATTR) = arg
    /\ \A i \in 1..Len(stack) :
          Live(stack[i]) =>
            /\ GetAttr(Cur, stack[i].st_ptr, NAME_ATTR) = stack[i].name
            /\ MarkersBelow(stack, i) > 0 =>
                  GetAttr(Cur, stack[i].st_ptr, NEST_ATTR) = MarkersBelow(stack, i)
    /\ nesting = MarkersBelow(stack, Len(stack))

\* InsertEntry has just returned a new symbol inside a block that lies inside another
C3_Witness ==
    /\ op = "InsertEntry" /\ ret # 0
    /\ nesting >= 2
    /\ GetAttr(Cur, ret, NEST_ATTR) = nesting

(***************************************************************************)
(* C4.  LookUp resolves innermost-first: when the name has a live binding, *)
(* LookUp returns the symbol of the topmost one, sets the used flag of     *)
(* that frame and of no other, prints nothing and pushes nothing.          *)
(***************************************************************************)
C4_LookUpInnermost ==
    [][(op' = "LookUp" /\ BoundAnywhere(stack, arg') # {}) =>
         LET i == Max(BoundAnywhere(stack, arg'))
         IN  /\ ret' = stack[i].st_ptr
             /\ stack' = [stack EXCEPT ![i].used = TRUE]
             /\ out' = << >>]_vars

\* LookUp has just resolved a name that is bound in two nested scopes to the inner one
C4_Witness ==
    /\ op = "LookUp"
    /\ Cardinality(BoundAnywhere(stack, arg)) >= 2
    /\ ret = stack[Max(BoundAnywhere(stack, arg))].st_ptr
    /\ \E k \in BoundAnywhere(stack, arg) : stack[k].st_ptr # ret

(***************************************************************************)
(* C5.  OpenBlock/CloseBlock round trip.  As claimed: the CloseBlock that  *)
(* matches an OpenBlock leaves the stack as it was just before that        *)
(* OpenBlock, used flags included, and the nesting counter likewise.       *)
(***************************************************************************)
C5_RoundTripExact ==
    [][op' = "CloseBlock" =>
         /\ stack' = opened[Len(opened)].stack
         /\ nesting' = opened[Len(opened)].nesting]_vars

(***************************************************************************)
(* C5, amended.  The CloseBlock that matches an OpenBlock leaves the stack *)
(* with the size it had just before that OpenBlock and with the same       *)
(* marker, name, st_ptr and dummy in every frame; a used flag may have     *)
(* gone from false to true, never back; nesting has its earlier value.     *)
(***************************************************************************)
C5_RoundTripUpToUsed ==
    [][op' = "CloseBlock" =>
         LET before == opened[Len(opened)]
         IN  /\ Len(stack') = Len(before.stack)
             /\ WithoutUsed(stack') = WithoutUsed(before.stack)
             /\ \A k \in 1..Len(stack') : before.stack[k].used => stack'[k].used
             /\ nesting' = before.nesting]_vars

\* a block has just been closed in which LookUp marked a binding of an outer scope
C5_Witness ==
    /\ op = "CloseBlock"
    /\ \E k \in 1..Len(stack) : Live(stack[k]) /\ stack[k].used

(***************************************************************************)
(* Vocabulary of the claims about the analysis.                            *)
(***************************************************************************)
\* the machine as the running MkST(SyntaxTree) found it
Pre == runs[Len(runs)]

\* the number of block markers on stk
Markers(stk) == MarkersBelow(stk, Len(stk))

\* the CloseBlock calls that the running handlers have still to make
Pending == Cardinality({i \in 1..Len(todo) : todo[i].k = "CloseBlock"})

\* the diagnostics of code c for the name id among the diagnostics d
Reports(d, c, id) == Cardinality({i \in 1..Len(d) : d[i] = <<c, id>>})

\* the expression nodes of the tree with operator o
Nodes(o) == {T \in 1..Len(heap) : NodeOp(Cur, T) = o}

\* T is a leaf that refers to the symbol table
IsSymRef(T) == NodeKind(Cur, T) = STNode

(***************************************************************************)
(* C6.  Blocks are paired: while MkST(SyntaxTree) runs, every block that   *)
(* classdefop or methodop has opened and not yet closed has exactly one    *)
(* CloseBlock still to come from its handler, also after a Redeclaration   *)
(* or another recoverable error; so when MkST(SyntaxTree) has returned,    *)
(* nesting and the number of block markers on the stack are what they were *)
(* before the call.                                                        *)
(***************************************************************************)
C6_BlocksPaired ==
    (phase \in {"run1", "run2", "analyzed", "again"} /\ status = "run") =>
        /\ nesting = Pre.nesting + Pending
        /\ Markers(stack) = Markers(Pre.stack) + Pending
        /\ phase \in {"analyzed", "again"} => Pending = 0

\* MkST(SyntaxTree) has returned from a program in which a class or a method was
\* refused as redeclared and the blocks of a class and of a method were opened
C6_Witness ==
    /\ phase = "analyzed"
    /\ \E i \in 1..Len(out) : out[i][1] = REDECLARATION
    /\ \E i \in 1..st_top : GetAttr(Cur, i, NEST_ATTR) = 1
    /\ nesting = Pre.nesting

(***************************************************************************)
(* C7.  After MkST(SyntaxTree) has returned, the name position of every    *)
(* VarOp, ClassDefOp, MethodOp (the name under its HeadOp), DeclOp         *)
(* declarator and SpecOp parameter holds an STNode, and the type leaf of   *)
(* every TypeIdOp is an INTEGERTNode or an STNode: no IDNode is left,      *)
(* whatever errors the program has.                                        *)
(***************************************************************************)
C7_NoIdRefRemains ==
    phase = "analyzed" =>
        /\ \A T \in Nodes(VarOp) : IsSymRef(LeftChild(Cur, T))
        /\ \A T \in Nodes(ClassDefOp) : IsSymRef(RightChild(Cur, T))
        /\ \A T \in Nodes(HeadOp) : IsSymRef(LeftChild(Cur, T))
        /\ \A T \in Nodes(DeclOp) : IsSymRef(LeftChild(Cur, RightChild(Cur, T)))
        /\ \A T \in Nodes(RArgTypeOp) \cup Nodes(VArgTypeOp) :
               IsSymRef(LeftChild(Cur, LeftChild(Cur, T)))
        /\ \A T \in Nodes(TypeIdOp) :
               NodeKind(Cur, LeftChild(Cur, T)) \in {INTEGERTNode, STNode}

(***************************************************************************)
(* C8.  MkST is idempotent: a second MkST(SyntaxTree), on the tree the     *)
(* first one has left, prints no diagnostic, replaces no node and adds no  *)
(* symbol-table entry.                                                     *)
(***************************************************************************)
C8_Idempotent ==
    phase = "again" =>
        /\ out = Pre.out
        /\ heap = Pre.heap
        /\ st_top = Pre.st_top

(***************************************************************************)
(* C9.  An undeclared identifier that is used k >= 1 times in one scope,   *)
(* as the base of a variable or as a type name, is reported as undeclared  *)
(* exactly once.                                                           *)
(***************************************************************************)
C9_UndeclaredOnce ==
    (phase = "analyzed"
        /\ \E k \in 1..MaxRepeat : source \in {PUndeclVar(k), PUndeclType(k)}) =>
        Reports(out, UNDECLARATION, loc_str(Cur, "x")) = 1

\* the tree as the parser left it
Parsed == runs[1]

\* T is a method called main
IsMain(T) ==
    /\ NodeOp(Parsed, T) = MethodOp
    /\ IntVal(Parsed, LeftChild(Parsed, LeftChild(Parsed, T))) = loc_str(Cur, "main")

\* the methods of the source text are allocated, and analyzed, in its order
FirstMain(T) == IsMain(T) /\ \A U \in 1..(T - 1) : ~IsMain(U)

\* the next step is methodop(T), in the first MkST(SyntaxTree)
MethodopOn(T) ==
    /\ Running1 /\ phase = "run1"
    /\ Head(todo).k \in {"MkST", "MkST right"}
    /\ Target = T

(***************************************************************************)
(* C10.  main is unique in the program: methodop inserts the first method  *)
(* called main as it does any method (a new symbol-table entry, its block  *)
(* opened, no diagnostic), and for every later method called main, in the  *)
(* same class or another, it reports one Redeclaration, inserts no entry   *)
(* and opens no block.                                                     *)
(***************************************************************************)
C10_MainUnique ==
    [][\A T \in 1..Len(heap) :
          (MethodopOn(T) /\ IsMain(T)) =>
              IF FirstMain(T)
              THEN /\ st_top' = st_top + 1
                   /\ out' = out
                   /\ nesting' = nesting + 1
                   /\ (IsSymRef(LeftChild(Cur, LeftChild(Cur, T))))'
              ELSE /\ out' = Append(out, <<REDECLARATION, loc_str(Cur, "main")>>)
                   /\ st_top' = st_top
                   /\ stack' = stack
                   /\ nesting' = nesting]_vars

(***************************************************************************)
(* C11.  Array index arity: a use of the array x of n dimensions with k    *)
(* subscripts and nothing else is analyzed to the end, with one            *)
(* IndexMismatch for x when k > n, when k < n and when k = 0, and with no  *)
(* IndexMismatch and the base of the VarOp replaced by an STNode when      *)
(* k = n.                                                                  *)
(***************************************************************************)
C11_IndexArity ==
    \A base \in ElemTypes, n \in 1..MaxDims, k \in 0..(MaxDims + 1) :
        source = PIdx(base, n, k) =>
            /\ status # "hang"
            /\ phase = "analyzed" =>
                   /\ Reports(out, INDX_MIS, loc_str(Cur, "x")) = (IF k = n THEN 0 ELSE 1)
                   /\ k = n => \A T \in Nodes(VarOp) : IsSymRef(LeftChild(Cur, T))

\* the diagnostics of the codes cs among the diagnostics d
ReportsOf(d, cs) == Cardinality({i \in 1..Len(d) : d[i][1] \in cs})

(***************************************************************************)
(* C12.  The pseudo-field length of an array x: a use of x that ends in    *)
(* .length is analyzed to the end without a mismatch diagnostic; a use     *)
(* with an access after .length gets one TypeMismatch for x; and on an     *)
(* array of int a field other than length gets one TypeMismatch for x.     *)
(***************************************************************************)
C12_Length ==
    \A base \in ElemTypes, n \in 1..MaxDims, k \in 0..MaxDims, tail \in Tails :
        (k <= n /\ (tail = <<Fld("z")>> => base = "int") /\ source = PLen(base, n, k, tail)) =>
            /\ status # "hang"
            /\ phase = "analyzed" =>
                   /\ tail = <<Fld("length")>> =>
                          ReportsOf(out, {INDX_MIS, TYPE_MIS, FIELD_MIS}) = 0
                   /\ Len(tail) = 2 => Reports(out, TYPE_MIS, loc_str(Cur, "x")) = 1
                   /\ tail = <<Fld("z")>> => Reports(out, TYPE_MIS, loc_str(Cur, "x")) = 1

\* the diagnostic id names the member that the access step reaches for: the field
\* of a field step; for a subscript, at least a string of the program
NamesMember(id, step) ==
    IF step.k = "field" THEN id = loc_str(Cur, step.name)
    ELSE id \in 0..(Len(strg_tbl) - 1)

(***************************************************************************)
(* C13.  Scalar access: a use of the int variable x with no access is      *)
(* analyzed without a diagnostic about it, and a use with a field or a     *)
(* subscript gets exactly one FieldMismatch, which names the member of     *)
(* the first access, and the analysis goes on.                             *)
(***************************************************************************)
C13_Scalar ==
    \A chain \in ScalarChains :
        source = PScalar(chain) =>
            /\ status = "run"
            /\ phase = "analyzed" =>
                   IF chain = << >>
                   THEN ReportsOf(out, {UNDECLARATION, INDX_MIS, FIELD_MIS, TYPE_MIS}) = 0
                   ELSE /\ ReportsOf(out, {FIELD_MIS}) = 1
                        /\ \A i \in 1..Len(out) :
                               out[i][1] = FIELD_MIS => NamesMember(out[i][2], chain[1])

\* the source is a program of RoutinePrograms with this access on the method
RoutineUse(chain) ==
    source \in {PRoutine(VoidT, chain), PRoutine(IntT, chain), PSystemMember(chain)}

\* the name in the base of the use: f, or system
RoutineBase == IF \E chain \in RoutineChains : source = PSystemMember(chain)
               THEN loc_str(Cur, "system") ELSE loc_str(Cur, "f")

(***************************************************************************)
(* C14.  Access on a routine is fatal: a use of a method (kind PROCE or    *)
(* FUNC) with no access left is analyzed without a diagnostic and the      *)
(* analysis goes on to the next statement; a use with a field or a         *)
(* subscript left prints "method <name> members cannot be accessed" and    *)
(* ends the process with a non-zero exit status, so that MkST never        *)
(* returns and the next statement is not analyzed.                         *)
(***************************************************************************)
C14_RoutineAccess ==
    /\ RoutineUse(<< >>) =>
           /\ status = "run"
           /\ ReportsOf(out, {MethodMembers, INDX_MIS, FIELD_MIS, TYPE_MIS}) = 0
           /\ phase = "analyzed" => Reports(out, UNDECLARATION, loc_str(Cur, "q")) >= 1
    /\ \A chain \in RoutineChains \ {<< >>} :
           RoutineUse(chain) =>
               /\ phase \in {"parsed", "inited", "run1"}
               /\ Reports(out, UNDECLARATION, loc_str(Cur, "q")) = 0
               /\ ReportsOf(out, {MethodMembers}) > 0 =>
                      /\ status = "exit" /\ exitcode # 0
                      /\ out[Len(out)] = <<MethodMembers, RoutineBase>>
                      /\ ReportsOf(out, {MethodMembers}) = 1
               /\ status # "run" => (status = "exit" /\ ReportsOf(out, {MethodMembers}) = 1)

\* the process has exited on a member access on a method of each kind
C14_Witness ==
    /\ status = "exit" /\ exitcode = 1
    /\ source = PRoutine(IntT, <<Idx(Num(1))>>)
    /\ out[Len(out)] = <<MethodMembers, loc_str(Cur, "f")>>

\* the codes that error_msg is called with together with ABORT
AbortCodes == {STACK_OVERFLOW, ST_OVERFLOW, ATTR_OVERFLOW}

(***************************************************************************)
(* C15.  Abort severity: a diagnostic of a capacity overflow, which        *)
(* error_msg is called for with ABORT, is the last thing the process       *)
(* prints, and the process ends with a non-zero exit status; after any     *)
(* other diagnostic the process runs on.                                   *)
(***************************************************************************)
C15_AbortExits ==
    /\ status \in {"run", "exit"}
    /\ status = "exit" <=> (out # << >> /\ out[Len(out)][1] \in AbortCodes)
    /\ status = "exit" => exitcode # 0

(***************************************************************************)
(* C16.  The symbol table holds 500 entries: declarations of new names go  *)
(* on until 500 have succeeded, the next one aborts with STOverflow, and   *)
(* no slot outside st[0..ST_SIZE-1] is written.                            *)
(***************************************************************************)
C16_SymbolCapacity ==
    phase = "scoped" =>
        /\ DOMAIN st \subseteq 0..(ST_SIZE - 1)
        /\ status = "exit" => (out = <<<<ST_OVERFLOW, 0>>>> /\ st_top = 500)

(***************************************************************************)
(* C17.  The scope stack holds 100 frames: with nothing declared, blocks   *)
(* open in blocks until 100 are open, the next OpenBlock aborts with       *)
(* StackOverflow, and no slot outside stack[0..STACK_SIZE-1] is written.   *)
(***************************************************************************)
C17_StackCapacity ==
    phase = "blocks" =>
        /\ Len(stack) <= STACK_SIZE - 1
        /\ status = "exit" => (out = <<<<STACK_OVERFLOW, 0>>>> /\ Len(stack) = 100)

\* the symbol-table entry i is the predefined name string of the kind kind
Predefined(i, string, kind) ==
    /\ GetAttr(Cur, i, NAME_ATTR) = loc_str(Cur, string)
    /\ GetAttr(Cur, i, KIND_ATTR) = kind
    /\ IsAttr(Cur, i, PREDE_ATTR) # 0 /\ GetAttr(Cur, i, PREDE_ATTR) = 1

(***************************************************************************)
(* C18.  A program of classes with empty bodies: after STInit and          *)
(* MkST(SyntaxTree) the symbol table holds system (class), readln and      *)
(* println (procedures, nested one deeper than system), all predefined,    *)
(* and then one entry of kind class for each class in the order of the     *)
(* source; there is no entry for the program name, and nothing was         *)
(* printed.  It holds for every such source text, whether it mentions      *)
(* system, readln or println or not.                                       *)
(***************************************************************************)
C18_EmptyClasses ==
    (source \in EmptyPrograms /\ phase = "analyzed") =>
        /\ out = << >>
        /\ st_top = 3 + Len(source.classes)
        /\ Predefined(1, "system", CLASS)
        /\ Predefined(2, "readln", PROCE)
        /\ Predefined(3, "println", PROCE)
        /\ GetAttr(Cur, 2, NEST_ATTR) = GetAttr(Cur, 1, NEST_ATTR) + 1
        /\ GetAttr(Cur, 3, NEST_ATTR) = GetAttr(Cur, 1, NEST_ATTR) + 1
        /\ \A i \in 1..Len(source.classes) :
               /\ GetAttr(Cur, 3 + i, NAME_ATTR) = loc_str(Cur, source.classes[i].name)
               /\ GetAttr(Cur, 3 + i, KIND_ATTR) = CLASS

\* the attribute kinds of the list that starts at cell c, in the order of the list
RECURSIVE KindsFrom(_, _)
KindsFrom(m, c) ==
    IF c = 0 THEN << >> ELSE <<m.attrarray[c].attr_num>> \o KindsFrom(m, m.attrarray[c].next_attr)

Ascending(s) == \A i \in 1..(Len(s) - 1) : s[i] < s[i + 1]

\* every attribute list of m is strictly ascending in the kind
ListsSorted(m) == \A i \in 0..m.st_top : Ascending(KindsFrom(m, StAt(m, i)))

\* the attributes of m as GetAttr and IsAttr show them, but for the one of st_ptr
\* with the kind attr_num
OtherAttrs(m, st_ptr, attr_num) ==
    [i \in 0..m.st_top, k \in AttrKinds \cup {NEST_ATTR} |->
        IF i = st_ptr /\ k = attr_num THEN <<TRUE, 0>>
        ELSE <<IsAttr(m, i, k) # 0, GetAttr(m, i, k)>>]

(***************************************************************************)
(* C19.  Attribute lists stay sorted and free of duplicates: after every   *)
(* call the attribute list of every entry is strictly ascending in the     *)
(* kind; and SetAttr(s, k, v) makes GetAttr(s, k) = v, takes a new cell    *)
(* of the pool only when s had no attribute of kind k, and leaves every    *)
(* other attribute of s and every attribute of the other entries as it     *)
(* was.                                                                    *)
(***************************************************************************)
C19_AttrSorted ==
    [][/\ ListsSorted(Cur) => ListsSorted(Cur)'
       /\ op' = "SetAttr" =>
              /\ (IsAttr(Cur, arg[1], arg[2]))' # 0
              /\ (GetAttr(Cur, arg[1], arg[2]))' = arg'[3]
              /\ IsAttr(Cur, arg'[1], arg'[2]) # 0 => attrarray' = [attrarray EXCEPT
                     ![IsAttr(Cur, arg'[1], arg'[2])].attr_val = arg'[3]]
              /\ IsAttr(Cur, arg'[1], arg'[2]) = 0 => Len(attrarray') = Len(attrarray) + 1
              /\ (OtherAttrs(Cur, arg[1], arg[2]))' = OtherAttrs(Cur, arg'[1], arg'[2])]_vars

\* SetAttr has put an attribute between two of a list (cell 4, after cell 3 was
\* made) and has then overwritten the value in cell 3
C19_Witness ==
    /\ op = "SetAttr" /\ arg = <<1, DIMEN_ATTR, 2>>
    /\ Len(attrarray) = 4
    /\ KindsFrom(Cur, StAt(Cur, 1)) = <<NAME_ATTR, NEST_ATTR, KIND_ATTR, DIMEN_ATTR>>
    /\ attrarray[3].attr_num = DIMEN_ATTR /\ attrarray[3].attr_val = 2
    /\ attrarray[4].attr_num = KIND_ATTR

(***************************************************************************)
(* Vocabulary of the claim about list assembly.                            *)
(***************************************************************************)
\* T1 is met from T by repeated LeftChild()
RECURSIVE LeftReach(_, _, _)
LeftReach(m, T, T1) ==
    T = T1 \/ (~IsNull(m, T) /\ LeftReach(m, LeftChild(m, T), T1))

\* T1 is met from T by repeated RightChild()
RECURSIVE RightReach(_, _, _)
RightReach(m, T, T1) ==
    T = T1 \/ (~IsNull(m, T) /\ RightReach(m, RightChild(m, T), T1))

\* the nodes of T's left spine where LeftChild() gives the dummy
LeftSlots(m, T) ==
    {p \in DOMAIN m.heap \ {NullExp} : LeftReach(m, T, p) /\ IsNull(m, LeftChild(m, p))}

RightSlots(m, T) ==
    {p \in DOMAIN m.heap \ {NullExp} : RightReach(m, T, p) /\ IsNull(m, RightChild(m, p))}

\* C20: MkLeftC(t1, t2) with t2 the dummy returns t1 and changes nothing;
\* for every other t2, a spine ending in a leaf included, it returns t2
\* with t1 installed at the first dummy child of t2's left spine: t1 is
\* met from the result by repeated LeftChild(), LeftDepth(result) =
\* LeftDepth(t2) + LeftDepth(t1), no other node changes and the dummy node
\* keeps its content. MkRightC does the same along the right spine.
C20_ListAssembly ==
    [][/\ op' = "MkLeftC" =>
             IF IsNull(Cur, arg[2]) THEN ret' = arg[1] /\ heap' = heap
             ELSE /\ ret' = arg[2]
                  /\ \E p \in LeftSlots(Cur, arg[2]) : heap' = [heap EXCEPT ![p].LeftC = arg[1]]
                  /\ (LeftReach(Cur, ret, arg[1]))'
                  /\ (LeftDepth(Cur, ret))' = LeftDepth(Cur, arg[2]) + LeftDepth(Cur, arg[1])
                  /\ heap'[NullExp] = dummyNode
       /\ op' = "MkRightC" =>
             IF IsNull(Cur, arg[2]) THEN ret' = arg[1] /\ heap' = heap
             ELSE /\ ret' = arg[2]
                  /\ \E p \in RightSlots(Cur, arg[2]) : heap' = [heap EXCEPT ![p].RightC = arg[1]]
                  /\ (RightReach(Cur, ret, arg[1]))'
                  /\ (RightDepth(Cur, ret))' = RightDepth(Cur, arg[2]) + RightDepth(Cur, arg[1])
                  /\ heap'[NullExp] = dummyNode]_vars

\* the name of the last access of the chain
LastField(chain) == loc_str(Cur, chain[Len(chain)].name)

(***************************************************************************)
(* C21.  Unknown class member: an access chain on a variable of class type *)
(* whose last field is no member of the class it is looked up in (no entry *)
(* of that name one level below the class within the class's extent) gets  *)
(* an Undeclared diagnostic for that field and varop returns, so that the  *)
(* analysis comes to its end; also when the failing field follows a field  *)
(* of the same chain that resolved.                                        *)
(***************************************************************************)
C21_UnknownMember ==
    \A chain \in UnknownChains :
        source = PMember(chain) =>
            /\ status = "run"
            /\ phase = "analyzed" => Reports(out, UNDECLARATION, LastField(chain)) = 1

\* c is the symbol-table entry of the class called string
IsClassNamed(c, string) ==
    GetAttr(Cur, c, NAME_ATTR) = loc_str(Cur, string) /\ GetAttr(Cur, c, KIND_ATTR) = CLASS

\* the anchor of an access on a variable of the class called string: the entry of
\* the class, and slot 0 when the class has none (varop then goes on with symbol 0)
ClassNamed(string) ==
    IF \E c \in 1..st_top : IsClassNamed(c, string)
    THEN CHOOSE c \in 1..st_top : IsClassNamed(c, string)
    ELSE 0

\* the direct members of the class c that are called f: one level below c, with
\* nothing but deeper entries between c and the member
DirectMembers(c, f) ==
    {s \in (c + 1)..st_top :
        /\ GetAttr(Cur, s, NAME_ATTR) = f
        /\ GetAttr(Cur, s, NEST_ATTR) = GetAttr(Cur, c, NEST_ATTR) + 1
        /\ \A j \in (c + 1)..(s - 1) : GetAttr(Cur, j, NEST_ATTR) > GetAttr(Cur, c, NEST_ATTR)}

\* the FieldOp of the k-th access of the chain (the parser allocates them in order)
FieldOpAt(k) ==
    CHOOSE T \in Nodes(FieldOp) : Cardinality({U \in Nodes(FieldOp) : U < T}) = k - 1

\* the class the k-th field of a chain on z is looked up in: z is a b, and y an a
AnchorName(k) == IF k = 1 THEN "b" ELSE "a"

\* varop has run on the use of z
VaropDone == \A V \in Nodes(VarOp) : IsSymRef(LeftChild(Cur, V))

DummiesOf(stk, id) == {k \in 1..Len(stk) : ~stk[k].marker /\ stk[k].dummy /\ stk[k].name = id}

(***************************************************************************)
(* C23.  As claimed: LookUp never takes a dummy frame for a match, and     *)
(* every LookUp of a name that no live binding carries reports Undeclared, *)
(* pushes the dummy frame (name, 0, dummy, not used) and returns 0.        *)
(***************************************************************************)
C23_DummyNeverMatches ==
    [][(op' = "LookUp" /\ BoundAnywhere(stack, arg') = {}) =>
         /\ ret' = 0
         /\ out' = <<<<UNDECLARATION, arg'>>>>
         /\ stack' = Append(stack, StackEntry(FALSE, arg', 0, TRUE, FALSE))]_vars

(***************************************************************************)
(* C23, amended.  A LookUp of a name that no live binding carries returns  *)
(* 0.  When no dummy frame of the name is on the stack either, it reports  *)
(* Undeclared and pushes the dummy frame (name, 0, dummy, not used); when  *)
(* one is, that frame is the match: nothing is reported or pushed, and the *)
(* used flag of the dummy frame is set.                                    *)
(***************************************************************************)
C23_DummySuppresses ==
    [][(op' = "LookUp" /\ BoundAnywhere(stack, arg') = {}) =>
         /\ ret' = 0
         /\ IF DummiesOf(stack, arg') = {}
            THEN /\ out' = <<<<UNDECLARATION, arg'>>>>
                 /\ stack' = Append(stack, StackEntry(FALSE, arg', 0, TRUE, FALSE))
            ELSE /\ out' = << >>
                 /\ stack' = [stack EXCEPT ![Max(DummiesOf(stack, arg'))].used = TRUE]]_vars

\* LookUp has just met the dummy frame that an earlier LookUp of the name pushed
C23_Witness ==
    /\ op = "LookUp" /\ ret = 0 /\ out = << >>
    /\ BoundAnywhere(stack, arg) = {}
    /\ \E k \in DummiesOf(stack, arg) : stack[k].used

\* the symbol-table entries that carry the name string
SymIds(string) == {s \in 1..st_top : GetAttr(Cur, s, NAME_ATTR) = loc_str(Cur, string)}

(***************************************************************************)
(* C24.  Declarator order: the declarators of one declaration are inserted *)
(* in the order of the source (in `int x, y, z` SymId(x) < SymId(y) <      *)
(* SymId(z), each name with one entry), an initializer may use a           *)
(* declarator written before it in the same declaration without an         *)
(* Undeclared report, and a declarator that is redeclared is reported once *)
(* and ends the handler.                                                   *)
(***************************************************************************)
C24_DeclaratorOrder ==
    \A declarators \in DeclaratorLists :
        (source = PDecls(declarators) /\ phase = "analyzed") =>
            /\ \A i \in 1..Len(declarators), j \in 1..Len(declarators) :
                   (i < j /\ declarators[i].name # declarators[j].name) =>
                       \A s \in SymIds(declarators[i].name), t \in SymIds(declarators[j].name) :
                           s < t
            /\ ReportsOf(out, {UNDECLARATION}) = 0
            /\ ReportsOf(out, {REDECLARATION}) =
                   (IF \E i, j \in 1..Len(declarators) :
                           i < j /\ declarators[i].name = declarators[j].name
                    THEN 1 ELSE 0)

(***************************************************************************)
(* Vocabulary of the claims about the scanner and the interner.            *)
(***************************************************************************)
\* the positions of text at which the closer of a comment starts
Closers(text) == {k \in 1..(Len(text) - 1) : text[k] = "*" /\ text[k + 1] = "/"}

Min(S) == CHOOSE k \in S : \A j \in S : k <= j

\* the newlines among the first n characters of text
Newlines(text, n) == Cardinality({k \in 1..n : text[k] = "\n"})

(***************************************************************************)
(* C25.  Comment scanning: match() returns exactly when the first closer   *)
(* of the input has been read, the input left being what follows that      *)
(* closer, whatever stands before it (asterisks included), and yyline has  *)
(* grown by the number of newlines read, a newline after an asterisk       *)
(* included; on an input without a closer match() does not return.         *)
(***************************************************************************)
C25_CommentScan ==
    phase = "scanned" =>
        IF Closers(source) = {} THEN status = "exit"
        ELSE /\ status = "run"
             /\ yyin = SubSeq(source, Min(Closers(source)) + 2, Len(source))
             /\ yyline = Newlines(source, Min(Closers(source)) + 1)

\* the calls of install_id so far that were given the text
InstallsOf(text) == {i \in 1..Len(runs) : runs[i].text = text}

(***************************************************************************)
(* C26.  Interning is injective and stable: every install_id of the same   *)
(* text yields the same index, two different texts never share an index    *)
(* (also when one is a proper prefix of the other and both lie in one      *)
(* bucket), and loc_str(text) is the index install_id gave to text, or -1  *)
(* if text was never installed.                                            *)
(***************************************************************************)
C26_Interning ==
    /\ \A i, j \in 1..Len(runs) : (runs[i].text = runs[j].text) <=> (runs[i].yylval = runs[j].yylval)
    /\ op = "loc_str" =>
           IF InstallsOf(arg) = {} THEN ret = -1
           ELSE \A i \in InstallsOf(arg) : ret = runs[i].yylval

(***************************************************************************)
(* C27.  varop terminates: on every program and every symbol table the     *)
(* access-chain loop comes to an end; no pass of the loop leaves it in a   *)
(* state it was in before with the chain still to do.  This includes a     *)
(* chain on a ValueArg or RefArg, on a variable whose class did not        *)
(* resolve, and on a class whose field is not found.                       *)
(***************************************************************************)
C27_VaropTerminates == status # "hang"

(***************************************************************************)
(* C28.  Slot 0 of the symbol table is never used as an entry: SetAttr is  *)
(* called with a SymId of 1..st_top only, so st[0] never gets an attribute *)
(* list, also when the InsertEntry of a class, a method or a parameter was *)
(* refused as a redeclaration.                                             *)
(***************************************************************************)
C28_SlotZeroUnused == st[0] = 0

\* the STNode leaves of the tree
STNodes == {T \in 1..Len(heap) : heap[T].NodeKind = STNode}

(***************************************************************************)
(* C29.  Every STNode leaf the analyzer makes carries a SymId of           *)
(* 1..st_top, an entry whose Name attribute is set; there is no STNode 0,  *)
(* neither for a type name that did not resolve nor for a class, method or *)
(* parameter that was refused as a redeclaration.                          *)
(***************************************************************************)
C29_SymRefsValid ==
    \A T \in STNodes :
        /\ heap[T].IntVal \in 1..st_top
        /\ IsAttr(Cur, heap[T].IntVal, NAME_ATTR) # 0

\* the scan of LookUpHere(id), started on the present stack, reads frames of
\* 1..stack_top only
LookUpHereInside(id) == LookUpHereLow(Cur, stack_top(Cur), id) \in 1..stack_top(Cur)

(***************************************************************************)
(* C30.  The scans of the scope stack stay inside it: the scan of          *)
(* LookUpHere in every InsertEntry (the first one of STInit, on the empty  *)
(* stack, and declarations outside every block included) and the scan of   *)
(* CloseBlock read frames of 1..stack_top only, and stack_top is never     *)
(* negative.                                                               *)
(***************************************************************************)
C30_ScansInsideStack ==
    [][/\ op' = "InsertEntry" => LookUpHereInside(arg')
       /\ (op' = "STInit" /\ loc_str(Cur, "system") # -1) =>
              LookUpHereInside(loc_str(Cur, "system"))
       /\ op' = "CloseBlock" => CloseBlockScan(Cur, stack_top(Cur)) \in 1..stack_top(Cur)
       /\ stack_top(Cur) >= 0]_vars

====
